---------------------------- MODULE Spec2Model ----------------------------
(***************************************************************************)
(* Verification model of the Fetch.ai node package: the agent envelope     *)
(* engine (messageUtils), the protocol manifest manager (protocolUtils),   *)
(* the dialogue methods of the agent client, the unit converter, the       *)
(* polling trigger node and DeltaVClient.waitForTask.                      *)
(*                                                                         *)
(* Conventions.                                                            *)
(*  - An optional JavaScript property is a sequence: <<>> when it is       *)
(*    undefined, <<v>> when it holds v.                                    *)
(*  - JSON text is a TLA+ string, built by concatenation the way           *)
(*    JSON.stringify builds it.  The strings of the model hold no quote,   *)
(*    backslash or control character, so no escaping occurs.               *)
(*  - SHA-256 and the signature scheme are idealised: a hash is an         *)
(*    injective tag of the hashed text, a signature verifies exactly       *)
(*    under the matching public key over the signed text.                  *)
(***************************************************************************)
EXTENDS Integers, Sequences, FiniteSets, TLC

VARIABLES
    env,        \* the envelope value in hand: <<>> or <<e>>
    wire,       \* the output of serializeEnvelope in flight: <<>> or <<members>>
    now,        \* Math.floor(Date.now() / 1000)
    rng,        \* how many random values (UUIDs, nonces) have been drawn
    signedEnv,  \* the envelope as the last signEnvelope returned it: <<>> or <<e>>
    signKey,    \* the private key that call was given
    tampered,   \* whether a field of the envelope was replaced since it was created
    lastOp,     \* the operation that acted last
    usedKey,    \* the key the last signEnvelope or verifyEnvelope was given
    outcome,    \* its outcome: "ok", "throw", "true" or "false"
    lastCreate  \* the arguments and the clock of the createEnvelope call that made
                \* the last fresh envelope: <<>> or <<call>>

VARIABLES
    posted,     \* what AgentClient gave axios.post: [dialogue, envelope] records, in order
    dialogues,  \* the sessionIds startDialogue returned
    result      \* the MessageResult of the last AgentClient call

envVars == <<env, wire, now, rng, signedEnv, signKey, tampered, lastOp, usedKey, outcome,
            lastCreate>>

VARIABLES
    pa, pb,      \* two protocol manifests
    merged,      \* what mergeProtocols returned for them: <<>> or <<manifest>>
    compat,      \* what areProtocolsCompatible returned for them: "none", "true", "false"
    raw,         \* an object handed to validateProtocolManifest
    validation   \* what it returned: <<>> or <<[valid, errors]>>

VARIABLES
    digestModels,  \* the two models handed to computeModelDigest
    digestCalls    \* the calls of computeModelDigest so far: [model, digest] records

VARIABLES
    candidate,      \* an object handed to validateEnvelope
    envValidation,  \* what it returned, and the clock of the call: <<>> or <<record>>
    expiryCalls     \* the calls of isExpired so far: [timestamp, clock, expired] records

dlgVars == <<posted, dialogues, result>>

protoVars == <<pa, pb, merged, compat, raw, validation>>

digestVars == <<digestModels, digestCalls>>

checkVars == <<candidate, envValidation, expiryCalls>>

VARIABLES
    codecIn,    \* a payload value handed to encodePayload
    codecText,  \* what encodePayload returned for it: <<>> or <<base64 text>>
    codecOut    \* what decodePayload returned for that text: <<>> or <<value>>

VARIABLES
    received,   \* an envelope a responder holds, as it came off the wire
    reply       \* the last envelope made in answer to it: <<>> or <<call>>

VARIABLES
    unitIn,     \* a string handed to the unit converter
    unitOut     \* what the converter returned for it: <<>> or <<call>>

VARIABLES
    triggerEvent,  \* the event parameter of the trigger node
    webhookData,   \* getWorkflowStaticData('node') of the trigger node
    polls          \* the polls so far: [response, before, after, returned] records

VARIABLES
    waitOptions,  \* the options waitForTask was given
    waitPc,       \* where waitForTask stands: "test", "request", "sleep", "returned", "thrown"
                  \* ("idle" when it was not called)
    waitElapsed,  \* Date.now() - startTime
    waitSeen,     \* the statuses getTaskStatus returned before the loop went to sleep
    waitResult    \* what waitForTask returned or threw: <<>> or <<value>>

VARIABLES
    schemaModel,  \* a model handed to computeSchemaDigest
    schemaCalls   \* the calls of computeSchemaDigest so far: [model, text, digest] records

coreVars == <<envVars, dlgVars, protoVars, digestVars, checkVars>>

codecVars == <<codecIn, codecText, codecOut>>

replyVars == <<received, reply>>

unitVars == <<unitIn, unitOut>>

triggerVars == <<triggerEvent, webhookData, polls>>

waitVars == <<waitOptions, waitPc, waitElapsed, waitSeen, waitResult>>

schemaVars == <<schemaModel, schemaCalls>>

extVars == <<codecVars, replyVars, unitVars, triggerVars, waitVars, schemaVars>>

vars == <<coreVars, extVars>>

---------------------------------------------------------------------------
(* Bounds of the model *)

NumKeys == 2
MaxIds == 2
MaxNow == 1
MaxPosted == 3
MaxDialogues == 2
MaxModels == 2
MaxHandlers == 2
MaxCalls == 3

(* Program constants *)

ENVELOPE_VERSION == 1
DEFAULT_MESSAGE_EXPIRY == 300

---------------------------------------------------------------------------
(* Optional values *)

None == <<>>
Some(v) == <<v>>
IsSome(o) == o # <<>>
Get(o) == o[1]

---------------------------------------------------------------------------
(* JSON.stringify on the values the envelope holds *)

\* JSON.stringify of a string without characters to escape
JStr(s) == "\"" \o s \o "\""

\* JSON.stringify of a finite integer
JNum(n) == ToString(n)

\* one "key":value member of an object
JMember(m) == JStr(m[1]) \o ":" \o (IF m[2] = "number" THEN JNum(m[3]) ELSE JStr(m[3]))

RECURSIVE JJoin(_)
JJoin(ms) ==
    IF ms = <<>> THEN ""
    ELSE IF Len(ms) = 1 THEN JMember(ms[1])
    ELSE JMember(ms[1]) \o "," \o JJoin(Tail(ms))

\* the text of an object whose defined members are ms, in property order
JObject(ms) == "{" \o JJoin(ms) \o "}"

\* a required property, and an optional one that JSON.stringify omits when undefined
Req(k, kind, v) == << <<k, kind, v>> >>
Opt(k, kind, o) == IF IsSome(o) THEN << <<k, kind, Get(o)>> >> ELSE <<>>

---------------------------------------------------------------------------
(* Input domains *)

Agents == {"agent1qsender", "agent1qtarget"}

\* JSON.stringify of the payload objects a caller passes
RequestJson == "{\"message\":\"test\"}"
ResponseJson == "{\"test\":\"data\"}"

SchemaDigests == {"model:test123"}

\* options.session: not given, the empty string, a session to continue
SessionOptions == {None, Some(""), Some("sess-A")}

ProtocolDigestOptions == {None, Some("proto:envelope-v1")}

\* options.expirySeconds: not given, zero, one minute
ExpiryOptions == {None, Some(0), Some(60)}

KeyPairs == 1..NumKeys

\* key material as DER bytes: the two halves of key pair k, and bytes that are no key
PrivateKey(k) == "pkcs8:" \o ToString(k)
PublicKey(k) == "spki:" \o ToString(k)
MalformedKey == "not-a-der-key"

PrivateKeyInputs == {PrivateKey(k) : k \in KeyPairs} \cup {MalformedKey}
PublicKeyInputs == {PublicKey(k) : k \in KeyPairs} \cup {MalformedKey, PrivateKey(1)}

---------------------------------------------------------------------------
(* node:crypto, idealised *)

\* crypto.createHash('sha256').update(text).digest().toString('base64')
Sha256Base64(text) == "sha256(" \o text \o ")"

\* the base64 text of the signature of msg under key pair k
SignatureOf(k, msg) == "sig" \o ToString(k) \o "(" \o msg \o ")"

\* sign.sign({key, format: 'der', type: 'pkcs8'}): a signature, or "throw" when
\* the bytes are no PKCS#8 private key
CryptoSign(msg, privateKey) ==
    IF \E k \in KeyPairs : privateKey = PrivateKey(k)
    THEN [threw |-> FALSE,
          value |-> SignatureOf(CHOOSE k \in KeyPairs : privateKey = PrivateKey(k), msg)]
    ELSE [threw |-> TRUE, value |-> ""]

\* verify.verify({key, format: 'der', type: 'spki'}, signature): "throw" when the
\* bytes are no SPKI public key, else whether the signature is the key's over msg
CryptoVerify(msg, publicKey, signature) ==
    IF \E k \in KeyPairs : publicKey = PublicKey(k)
    THEN LET k == CHOOSE j \in KeyPairs : publicKey = PublicKey(j)
         IN  IF signature = SignatureOf(k, msg) THEN "true" ELSE "false"
    ELSE "throw"

---------------------------------------------------------------------------
(* messageUtils *)

\* crypto.randomUUID() and crypto.randomBytes(16).toString('hex'): the n-th draw
createSessionId(n) == "uuid-" \o ToString(n)
createNonce(n) == "nonce-" \o ToString(n)

calculateExpiry(ttlSeconds, clock) == clock + ttlSeconds

\* isExpired taking the expiry instant itself for expired
isExpired_Inclusive(expiryTimestamp, clock) == clock >= expiryTimestamp

isExpired(expiryTimestamp, clock) == clock > expiryTimestamp

\* Buffer.from(json).toString('base64')
Base64(text) == "b64(" \o text \o ")"

encodePayload(payloadJson) == Base64(payloadJson)

\* a ?? b on an optional string: the empty string is kept
OrElseStr_Nullish(o, d) == IF IsSome(o) THEN Get(o) ELSE d

\* a || b on an optional string: the empty string is falsy
OrElseStr(o, d) == IF IsSome(o) /\ Get(o) # "" THEN Get(o) ELSE d

\* a || b on an optional number: zero is falsy
OrElseNum(o, d) == IF IsSome(o) /\ Get(o) # 0 THEN Get(o) ELSE d

\* createEnvelope storing the JSON text of the payload as it is
createEnvelope_PlainPayload(sender, target, payloadJson, schemaDigest, options, clock, n) ==
    [version        |-> ENVELOPE_VERSION,
     sender         |-> sender,
     target         |-> target,
     session        |-> OrElseStr(options.session, createSessionId(n)),
     schemaDigest   |-> schemaDigest,
     protocolDigest |-> options.protocolDigest,
     payload        |-> payloadJson,
     expires        |-> Some(calculateExpiry(
                            OrElseNum(options.expirySeconds, DEFAULT_MESSAGE_EXPIRY), clock)),
     nonce          |-> Some(createNonce(n)),
     signature      |-> None]

createEnvelope(sender, target, payloadJson, schemaDigest, options, clock, n) ==
    [version        |-> ENVELOPE_VERSION,
     sender         |-> sender,
     target         |-> target,
     session        |-> OrElseStr(options.session, createSessionId(n)),
     schemaDigest   |-> schemaDigest,
     protocolDigest |-> options.protocolDigest,
     payload        |-> Base64(payloadJson),
     expires        |-> Some(calculateExpiry(
                            OrElseNum(options.expirySeconds, DEFAULT_MESSAGE_EXPIRY), clock)),
     nonce          |-> Some(createNonce(n)),
     signature      |-> None]

\* signEnvelope leaving expires out of what it signs
SignMembers_NoExpires(e) ==
    Req("version", "number", e.version) \o Req("sender", "string", e.sender)
    \o Req("target", "string", e.target) \o Req("session", "string", e.session)
    \o Req("schemaDigest", "string", e.schemaDigest)
    \o Req("payload", "string", e.payload)
    \o Opt("nonce", "string", e.nonce)

\* the object literal signEnvelope passes to JSON.stringify
SignMembers(e) ==
    Req("version", "number", e.version) \o Req("sender", "string", e.sender)
    \o Req("target", "string", e.target) \o Req("session", "string", e.session)
    \o Req("schemaDigest", "string", e.schemaDigest)
    \o Req("payload", "string", e.payload)
    \o Opt("expires", "number", e.expires) \o Opt("nonce", "string", e.nonce)

\* verifyEnvelope listing nonce before expires
VerifyMembers_Reordered(e) ==
    Req("version", "number", e.version) \o Req("sender", "string", e.sender)
    \o Req("target", "string", e.target) \o Req("session", "string", e.session)
    \o Req("schemaDigest", "string", e.schemaDigest)
    \o Req("payload", "string", e.payload)
    \o Opt("nonce", "string", e.nonce) \o Opt("expires", "number", e.expires)

\* verifyEnvelope checking protocolDigest as well
VerifyMembers_WithProtocolDigest(e) ==
    Req("version", "number", e.version) \o Req("sender", "string", e.sender)
    \o Req("target", "string", e.target) \o Req("session", "string", e.session)
    \o Req("schemaDigest", "string", e.schemaDigest)
    \o Opt("protocolDigest", "string", e.protocolDigest)
    \o Req("payload", "string", e.payload)
    \o Opt("expires", "number", e.expires) \o Opt("nonce", "string", e.nonce)

\* the object literal verifyEnvelope passes to JSON.stringify
VerifyMembers(e) ==
    Req("version", "number", e.version) \o Req("sender", "string", e.sender)
    \o Req("target", "string", e.target) \o Req("session", "string", e.session)
    \o Req("schemaDigest", "string", e.schemaDigest)
    \o Req("payload", "string", e.payload)
    \o Opt("expires", "number", e.expires) \o Opt("nonce", "string", e.nonce)

\* the envelope with signature set, or the exception of sign.sign
signEnvelope(e, privateKey) ==
    LET s == CryptoSign(JObject(SignMembers(e)), privateKey)
    IN  IF s.threw THEN [threw |-> TRUE, value |-> e]
        ELSE [threw |-> FALSE, value |-> [e EXCEPT !.signature = Some(s.value)]]

\* what the body of the try block evaluates to
VerifyTry(e, publicKey) ==
    CryptoVerify(JObject(VerifyMembers(e)), publicKey, Get(e.signature))

\* verifyEnvelope without the try block
VerifyCatch_Rethrow(r) == r

\* try { ... } catch { return false }
VerifyCatch(r) == IF r = "throw" THEN "false" ELSE r

\* verifyEnvelope taking every envelope that carries a signature for verified
verifyEnvelope_PresenceOnly(e, publicKey) ==
    IF ~IsSome(e.signature) \/ Get(e.signature) = "" THEN "false" ELSE "true"

verifyEnvelope(e, publicKey) ==
    IF ~IsSome(e.signature) \/ Get(e.signature) = "" THEN "false"
    ELSE VerifyCatch(VerifyTry(e, publicKey))

\* the arguments of one createEnvelope call
CreateArgs(sender, target, payloadJson, schemaDigest, options) ==
    [sender |-> sender, target |-> target, payloadJson |-> payloadJson,
     schemaDigest |-> schemaDigest, options |-> options]

\* createEnvelope called with the arguments c
createEnvelopeWith(c, clock, n) ==
    createEnvelope(c.sender, c.target, c.payloadJson, c.schemaDigest, c.options, clock, n)

\* the arguments createResponseEnvelope passes to createEnvelope
ResponseArgs(original, sender, payloadJson, schemaDigest) ==
    CreateArgs(sender, original.sender, payloadJson, schemaDigest,
               [session |-> Some(original.session),
                protocolDigest |-> original.protocolDigest,
                expirySeconds |-> None])

createResponseEnvelope(original, sender, payloadJson, schemaDigest, clock, n) ==
    createEnvelopeWith(ResponseArgs(original, sender, payloadJson, schemaDigest), clock, n)

\* JSON.stringify({type: 'error', code, message})
ErrorPayloadJson(code, message) ==
    JObject(Req("type", "string", "error") \o Req("code", "string", code)
            \o Req("message", "string", message))

\* the arguments createErrorEnvelope passes to createEnvelope
ErrorArgs(original, sender, code, message) ==
    CreateArgs(sender, original.sender, ErrorPayloadJson(code, message),
               "model:error-v1",
               [session |-> Some(original.session),
                protocolDigest |-> None,
                expirySeconds |-> None])

createErrorEnvelope(original, sender, code, message, clock, n) ==
    createEnvelopeWith(ErrorArgs(original, sender, code, message), clock, n)

\* JSON.stringify(envelope): the defined properties, in property order
serializeEnvelope(e) ==
    Req("version", "number", e.version) \o Req("sender", "string", e.sender)
    \o Req("target", "string", e.target) \o Req("session", "string", e.session)
    \o Req("schemaDigest", "string", e.schemaDigest)
    \o Opt("protocolDigest", "string", e.protocolDigest)
    \o Req("payload", "string", e.payload)
    \o Opt("expires", "number", e.expires) \o Opt("nonce", "string", e.nonce)
    \o Opt("signature", "string", e.signature)

\* the property k of the parsed object: undefined when the text has no such member
Prop(ms, k) ==
    IF \E i \in 1..Len(ms) : ms[i][1] = k
    THEN Some(ms[CHOOSE i \in 1..Len(ms) : ms[i][1] = k][3])
    ELSE None

\* JSON.parse(data) as AgentEnvelope, data being the text of an envelope
deserializeEnvelope(ms) ==
    [version        |-> Get(Prop(ms, "version")),
     sender         |-> Get(Prop(ms, "sender")),
     target         |-> Get(Prop(ms, "target")),
     session        |-> Get(Prop(ms, "session")),
     schemaDigest   |-> Get(Prop(ms, "schemaDigest")),
     protocolDigest |-> Prop(ms, "protocolDigest"),
     payload        |-> Get(Prop(ms, "payload")),
     expires        |-> Prop(ms, "expires"),
     nonce          |-> Prop(ms, "nonce"),
     signature      |-> Prop(ms, "signature")]

---------------------------------------------------------------------------
(* JavaScript values of the protocol schemas: <<"str", s>>, <<"num", n>>,   *)
(* <<"obj", members>> with members a sequence of <<key, value>> in property *)
(* order, <<"arr", items>>, <<"null">> and <<"undef">>.                     *)

Str(s) == <<"str", s>>
Num(n) == <<"num", n>>
Obj(members) == <<"obj", members>>
Arr(items) == <<"arr", items>>
Null == <<"null">>
Undef == <<"undef">>

\* !!v
Truthy(v) ==
    CASE v[1] = "str" -> v[2] # ""
      [] v[1] = "num" -> v[2] # 0
      [] v[1] \in {"obj", "arr"} -> TRUE
      [] OTHER -> FALSE

\* typeof v
TypeOf(v) ==
    CASE v[1] = "str" -> "string"
      [] v[1] = "num" -> "number"
      [] v[1] = "undef" -> "undefined"
      [] OTHER -> "object"

\* Array.isArray(v)
IsArray(v) == v[1] = "arr"

\* String(v) inside a template literal, for strings and numbers
TemplateText(v) == IF v[1] = "num" THEN ToString(v[2]) ELSE v[2]

\* the keys the schemas of the model use, in the order of Array.prototype.sort
\* (UTF-16 code units)
SortedKeys == <<"a", "b", "bar", "foo", "items", "type">>

KeyRank(k) == CHOOSE i \in 1..Len(SortedKeys) : SortedKeys[i] = k

\* members with m inserted before the first member whose key sorts after m's
RECURSIVE InsertByKey(_, _)
InsertByKey(m, members) ==
    IF members = <<>> THEN <<m>>
    ELSE IF KeyRank(m[1]) < KeyRank(members[1][1]) THEN <<m>> \o members
    ELSE <<members[1]>> \o InsertByKey(m, Tail(members))

\* the members in the order of Object.keys(schema).sort()
RECURSIVE SortByKey(_)
SortByKey(members) ==
    IF members = <<>> THEN <<>>
    ELSE InsertByKey(members[1], SortByKey(Tail(members)))

\* an array read as a Record: its indices are its keys
IndexMembers(items) == [i \in 1..Len(items) |-> <<ToString(i - 1), items[i]>>]

\* canonicalizeSchema without the sort of the keys
RECURSIVE canonicalizeSchema_Unsorted(_)
canonicalizeSchema_Unsorted(schema) ==
    LET members == IF schema[1] = "arr" THEN IndexMembers(schema[2]) ELSE schema[2]
        Canon(v) ==
            IF v[1] = "obj" THEN canonicalizeSchema_Unsorted(v)
            ELSE IF v[1] = "arr"
                 THEN Arr([i \in 1..Len(v[2]) |->
                              IF v[2][i][1] \in {"obj", "arr"}
                              THEN canonicalizeSchema_Unsorted(v[2][i])
                              ELSE v[2][i]])
                 ELSE v
    IN  Obj([i \in 1..Len(members) |-> <<members[i][1], Canon(members[i][2])>>])

\* canonicalizeSchema sorting the keys of the schema itself only
canonicalizeSchema_Shallow(schema) ==
    Obj(IF schema[1] = "arr" THEN IndexMembers(schema[2]) ELSE SortByKey(schema[2]))

RECURSIVE canonicalizeSchema(_)
canonicalizeSchema(schema) ==
    LET members == IF schema[1] = "arr" THEN IndexMembers(schema[2])
                   ELSE SortByKey(schema[2])
        Canon(v) ==
            IF v[1] = "obj" THEN canonicalizeSchema(v)
            ELSE IF v[1] = "arr"
                 THEN Arr([i \in 1..Len(v[2]) |->
                              IF v[2][i][1] \in {"obj", "arr"}
                              THEN canonicalizeSchema(v[2][i])
                              ELSE v[2][i]])
                 ELSE v
    IN  Obj([i \in 1..Len(members) |-> <<members[i][1], Canon(members[i][2])>>])

\* JSON.stringify(v)
RECURSIVE JText(_)
JText(v) ==
    LET RECURSIVE Members(_)
        Members(ms) ==
            IF ms = <<>> THEN <<>>
            ELSE (IF ms[1][2][1] = "undef" THEN <<>>
                  ELSE <<JStr(ms[1][1]) \o ":" \o JText(ms[1][2])>>) \o Members(Tail(ms))
        RECURSIVE Join(_)
        Join(ts) ==
            IF ts = <<>> THEN ""
            ELSE IF Len(ts) = 1 THEN ts[1]
            ELSE ts[1] \o "," \o Join(Tail(ts))
    IN  CASE v[1] = "str" -> JStr(v[2])
          [] v[1] = "num" -> JNum(v[2])
          [] v[1] = "obj" -> "{" \o Join(Members(v[2])) \o "}"
          [] v[1] = "arr" ->
                "[" \o Join([i \in 1..Len(v[2]) |->
                                IF v[2][i][1] = "undef" THEN "null" ELSE JText(v[2][i])])
                \o "]"
          [] OTHER -> "null"

---------------------------------------------------------------------------
(* messageUtils: decodePayload *)

\* the payload objects the callers of the model pass
PayloadValues ==
    { Obj(<< <<"message", Str("test")>> >>),
      Obj(<< <<"test", Str("data")>> >>),
      Obj(<< <<"type", Str("error")>>, <<"code", Str("E1")>>, <<"message", Str("failed")>> >>) }

\* JSON.parse(text), text being the JSON text of a payload object
JsonParse(text) == CHOOSE v \in PayloadValues : JText(v) = text

\* Buffer.from(b, 'base64').toString('utf-8')
FromBase64(b) == CHOOSE t \in {JText(v) : v \in PayloadValues} : Base64(t) = b

decodePayload(e) == JsonParse(FromBase64(e.payload))

---------------------------------------------------------------------------
(* messageUtils: validateEnvelope, on an object whose properties are        *)
(* JavaScript values of any type                                            *)

\* String(v) inside a template literal, undefined included
VersionText(v) == IF v[1] = "undef" THEN "undefined" ELSE TemplateText(v)

\* !value || typeof value !== 'string'
MissingOrInvalid(v) == ~Truthy(v) \/ TypeOf(v) # "string"

\* validateEnvelope returning at the first error
EnvelopeErrors_FailFast(envelope, clock) ==
    IF envelope.version # Num(ENVELOPE_VERSION)
    THEN <<"Invalid version: expected " \o ToString(ENVELOPE_VERSION)
           \o ", got " \o VersionText(envelope.version)>>
    ELSE IF MissingOrInvalid(envelope.sender) THEN <<"Missing or invalid sender">>
    ELSE IF MissingOrInvalid(envelope.target) THEN <<"Missing or invalid target">>
    ELSE IF MissingOrInvalid(envelope.session) THEN <<"Missing or invalid session">>
    ELSE IF MissingOrInvalid(envelope.schemaDigest) THEN <<"Missing or invalid schemaDigest">>
    ELSE IF MissingOrInvalid(envelope.payload) THEN <<"Missing or invalid payload">>
    ELSE IF Truthy(envelope.expires) /\ isExpired(envelope.expires[2], clock)
    THEN <<"Message has expired">>
    ELSE <<>>

\* the errors array validateEnvelope builds when the clock reads `clock`
EnvelopeErrors(envelope, clock) ==
    (IF envelope.version # Num(ENVELOPE_VERSION)
     THEN <<"Invalid version: expected " \o ToString(ENVELOPE_VERSION)
            \o ", got " \o VersionText(envelope.version)>>
     ELSE <<>>)
    \o (IF MissingOrInvalid(envelope.sender) THEN <<"Missing or invalid sender">> ELSE <<>>)
    \o (IF MissingOrInvalid(envelope.target) THEN <<"Missing or invalid target">> ELSE <<>>)
    \o (IF MissingOrInvalid(envelope.session) THEN <<"Missing or invalid session">> ELSE <<>>)
    \o (IF MissingOrInvalid(envelope.schemaDigest)
        THEN <<"Missing or invalid schemaDigest">> ELSE <<>>)
    \o (IF MissingOrInvalid(envelope.payload) THEN <<"Missing or invalid payload">> ELSE <<>>)
    \o (IF Truthy(envelope.expires) /\ isExpired(envelope.expires[2], clock)
        THEN <<"Message has expired">> ELSE <<>>)

validateEnvelope(envelope, clock) ==
    LET errors == EnvelopeErrors(envelope, clock)
    IN  [valid |-> Len(errors) = 0, errors |-> errors]

\* an optional property as a JavaScript value
OptValue(o, kind) ==
    IF ~IsSome(o) THEN Undef ELSE IF kind = "number" THEN Num(Get(o)) ELSE Str(Get(o))

\* the envelope e of createEnvelope as the object validateEnvelope reads
EnvelopeValue(e) ==
    [version      |-> Num(e.version),
     sender       |-> Str(e.sender),
     target       |-> Str(e.target),
     session      |-> Str(e.session),
     schemaDigest |-> Str(e.schemaDigest),
     payload      |-> Str(e.payload),
     expires      |-> OptValue(e.expires, "number")]

---------------------------------------------------------------------------
(* protocolUtils *)

\* hash.toString('base64').replace(/[+/=]/g, '').slice(0, 32): the idealised
\* hash stays injective when cut to 32 characters
Digest32(base64) == base64

\* the canonical object computeModelDigest hashes
ModelCanonical(model) ==
    Obj(<< <<"name", model.name>>, <<"schema", canonicalizeSchema(model.schema)>> >>)

computeModelDigest(model) ==
    "model:" \o Digest32(Sha256Base64(JText(ModelCanonical(model))))

\* the names the models of the model use, in the order of localeCompare, which
\* is the collation of the host's locale (ICU in the standard build of Node):
\* lower case sorts before upper case of the same letters, and canonically
\* equivalent strings compare equal.  The names of one set compare equal:
\* "caf\u00e9" is written with the precomposed letter U+00E9, "cafe\u0301" with
\* the letter e followed by the combining accent U+0301.
LocaleSortedNames ==
    << {"caf\\u00e9", "cafe\\u0301"}, {"request"}, {"Request"}, {"Response"} >>

\* a.localeCompare(b) < 0, = 0, > 0 as -1, 0, 1
LocaleCompare(a, b) ==
    LET ra == CHOOSE i \in 1..Len(LocaleSortedNames) : a \in LocaleSortedNames[i]
        rb == CHOOSE i \in 1..Len(LocaleSortedNames) : b \in LocaleSortedNames[i]
    IN  IF ra < rb THEN -1 ELSE IF ra > rb THEN 1 ELSE 0

\* models with m inserted after the models that do not compare greater: the
\* sort of Array.prototype.sort is stable
RECURSIVE InsertByName(_, _)
InsertByName(m, models) ==
    IF models = <<>> THEN <<m>>
    ELSE IF LocaleCompare(m.name[2], models[1].name[2]) <= 0 THEN <<m>> \o models
    ELSE <<models[1]>> \o InsertByName(m, Tail(models))

\* [...manifest.models].sort((a, b) => a.name.localeCompare(b.name))
RECURSIVE SortByName(_)
SortByName(models) ==
    IF models = <<>> THEN <<>>
    ELSE InsertByName(models[1], SortByName(Tail(models)))

computeProtocolDigest(manifest) ==
    LET sortedModels == SortByName(manifest.models)
        canonical ==
            Obj(<< <<"name", manifest.name>>,
                   <<"version", manifest.version>>,
                   <<"models", Arr([i \in 1..Len(sortedModels) |->
                                       ModelCanonical(sortedModels[i])])>> >>)
    IN  "proto:" \o Digest32(Sha256Base64(JText(canonical)))

\* createProtocolManifest computing the digest before the models are set
createProtocolManifest_Stale(name, version, models, handlers, description) ==
    LET manifest == [name |-> name, version |-> version, digest |-> "",
                     description |-> description, models |-> models, handlers |-> handlers]
    IN  [manifest EXCEPT !.digest = computeProtocolDigest([manifest EXCEPT !.models = <<>>])]

createProtocolManifest(name, version, models, handlers, description) ==
    LET manifest == [name |-> name, version |-> version, digest |-> "",
                     description |-> description, models |-> models, handlers |-> handlers]
    IN  [manifest EXCEPT !.digest = computeProtocolDigest(manifest)]

\* the forEach callback without the check of the schema
ModelErrors_NameOnly(model, i) ==
    IF ~Truthy(model.name)
    THEN <<"Model at index " \o ToString(i - 1) \o " missing name">> ELSE <<>>

\* the errors the forEach callback pushes for the model at position i (from 1)
ModelErrors(model, i) ==
    (IF ~Truthy(model.name)
     THEN <<"Model at index " \o ToString(i - 1) \o " missing name">> ELSE <<>>)
    \o (IF ~Truthy(model.schema) \/ TypeOf(model.schema) # "object"
        THEN <<"Model "
               \o (IF Truthy(model.name) THEN TemplateText(model.name) ELSE ToString(i - 1))
               \o " missing or invalid schema">>
        ELSE <<>>)

RECURSIVE ModelsErrors(_, _)
ModelsErrors(models, i) ==
    IF i > Len(models) THEN <<>>
    ELSE ModelErrors(models[i], i) \o ModelsErrors(models, i + 1)

\* validateProtocolManifest returning at the first error
ValidationErrors_FailFast(manifest) ==
    IF ~Truthy(manifest.name) \/ TypeOf(manifest.name) # "string"
    THEN <<"Missing or invalid protocol name">>
    ELSE IF ~Truthy(manifest.version) \/ TypeOf(manifest.version) # "string"
    THEN <<"Missing or invalid protocol version">>
    ELSE IF ~Truthy(manifest.models) \/ ~IsArray(manifest.models)
    THEN <<"Missing or invalid models array">>
    ELSE LET errors == ModelsErrors(manifest.models[2], 1)
         IN  IF errors = <<>> THEN <<>> ELSE <<errors[1]>>

\* the errors array validateProtocolManifest builds
ValidationErrors(manifest) ==
    (IF ~Truthy(manifest.name) \/ TypeOf(manifest.name) # "string"
     THEN <<"Missing or invalid protocol name">> ELSE <<>>)
    \o (IF ~Truthy(manifest.version) \/ TypeOf(manifest.version) # "string"
        THEN <<"Missing or invalid protocol version">> ELSE <<>>)
    \o (IF ~Truthy(manifest.models) \/ ~IsArray(manifest.models)
        THEN <<"Missing or invalid models array">>
        ELSE ModelsErrors(manifest.models[2], 1))

validateProtocolManifest(manifest) ==
    LET errors == ValidationErrors(manifest)
    IN  [valid |-> Len(errors) = 0, errors |-> errors]

areProtocolsCompatible(protocol1, protocol2) ==
    LET models1 == {computeModelDigest(protocol1.models[i]) : i \in 1..Len(protocol1.models)}
    IN  \E i \in 1..Len(protocol2.models) : computeModelDigest(protocol2.models[i]) \in models1

\* the loop of mergeProtocols setting the map entry also when the digest is there
RECURSIVE MergedModels_LastWins(_, _)
MergedModels_LastWins(all, n) ==
    IF n = 0 THEN <<>>
    ELSE LET before == MergedModels_LastWins(all, n - 1)
         IN  IF \E i \in 1..Len(before) :
                    computeModelDigest(before[i]) = computeModelDigest(all[n])
             THEN [i \in 1..Len(before) |->
                      IF computeModelDigest(before[i]) = computeModelDigest(all[n])
                      THEN all[n] ELSE before[i]]
             ELSE Append(before, all[n])

\* Array.from(modelMap.values()) after the models all[1..n] went through the loop
RECURSIVE MergedModels(_, _)
MergedModels(all, n) ==
    IF n = 0 THEN <<>>
    ELSE LET before == MergedModels(all, n - 1)
         IN  IF \E i \in 1..Len(before) :
                    computeModelDigest(before[i]) = computeModelDigest(all[n])
             THEN before
             ELSE Append(before, all[n])

mergeProtocols(protocol1, protocol2, newName, newVersion) ==
    LET all == protocol1.models \o protocol2.models
    IN  createProtocolManifest(
            newName, newVersion, MergedModels(all, Len(all)),
            protocol1.handlers \o protocol2.handlers,
            Some("Merged from " \o protocol1.name[2] \o " and " \o protocol2.name[2]))

createSimpleProtocol(name, version, requestSchema, responseSchema) ==
    createProtocolManifest(
        name, version,
        << [name |-> Str("Request"), schema |-> requestSchema],
           [name |-> Str("Response"), schema |-> responseSchema] >>,
        << [name |-> "handleRequest", messageType |-> "Request",
            responseType |-> Some("Response")] >>,
        Some("Simple request-response protocol for " \o name[2]))

---------------------------------------------------------------------------
(* The envelope engine as a state machine: one envelope in hand, which the  *)
(* operations of messageUtils replace by their result.  serializeEnvelope  *)
(* puts it on the wire, deserializeEnvelope takes it from there.           *)

EnvInit ==
    /\ env = None
    /\ wire = None
    /\ now = 0
    /\ rng = 0
    /\ signedEnv = None
    /\ signKey = ""
    /\ tampered = FALSE
    /\ lastOp = "init"
    /\ usedKey = ""
    /\ outcome = "ok"
    /\ lastCreate = None

\* a fresh unsigned envelope, which createEnvelope made of the arguments c,
\* replaces the one in hand
Fresh(e, op, c) ==
    /\ env' = Some(e)
    /\ lastCreate' = Some([args |-> c, clock |-> now])
    /\ rng' = rng + 1
    /\ signedEnv' = None
    /\ signKey' = ""
    /\ tampered' = FALSE
    /\ lastOp' = op
    /\ usedKey' = ""
    /\ outcome' = "ok"
    /\ UNCHANGED <<wire, now>>
    /\ UNCHANGED <<dlgVars, protoVars, digestVars, checkVars>>
    /\ UNCHANGED extVars

CreateEnvelope ==
    /\ rng < MaxIds
    /\ wire = None
    /\ \E sender \in Agents, target \in Agents, d \in SchemaDigests, s \in SessionOptions,
          pd \in ProtocolDigestOptions, x \in ExpiryOptions :
          /\ target # sender
          /\ LET c == CreateArgs(sender, target, RequestJson, d,
                                 [session |-> s, protocolDigest |-> pd, expirySeconds |-> x])
             IN  Fresh(createEnvelopeWith(c, now, rng + 1), "create", c)

SignEnvelope ==
    /\ IsSome(env)
    /\ \E key \in PrivateKeyInputs :
          LET r == signEnvelope(Get(env), key)
          IN  /\ env' = Some(r.value)
              /\ signedEnv' = IF r.threw THEN signedEnv ELSE Some(r.value)
              /\ signKey' = IF r.threw THEN signKey ELSE key
              /\ lastOp' = "sign"
              /\ usedKey' = key
              /\ outcome' = IF r.threw THEN "throw" ELSE "ok"
    /\ UNCHANGED <<wire, now, rng, tampered, lastCreate>>
    /\ UNCHANGED <<dlgVars, protoVars, digestVars, checkVars>>
    /\ UNCHANGED extVars

VerifyEnvelope ==
    /\ IsSome(env)
    /\ \E key \in PublicKeyInputs :
          /\ outcome' = verifyEnvelope(Get(env), key)
          /\ usedKey' = key
    /\ lastOp' = "verify"
    /\ UNCHANGED <<env, wire, now, rng, signedEnv, signKey, tampered, lastCreate>>
    /\ UNCHANGED <<dlgVars, protoVars, digestVars, checkVars>>
    /\ UNCHANGED extVars

CreateResponseEnvelope ==
    /\ IsSome(env)
    /\ rng < MaxIds
    /\ \E sender \in Agents, d \in SchemaDigests :
          Fresh(createResponseEnvelope(Get(env), sender, ResponseJson, d, now, rng + 1),
                "response", ResponseArgs(Get(env), sender, ResponseJson, d))

CreateErrorEnvelope ==
    /\ IsSome(env)
    /\ rng < MaxIds
    /\ \E sender \in Agents :
          Fresh(createErrorEnvelope(Get(env), sender, "E1", "failed", now, rng + 1), "error",
                ErrorArgs(Get(env), sender, "E1", "failed"))

SerializeEnvelope ==
    /\ IsSome(env)
    /\ wire' = Some(serializeEnvelope(Get(env)))
    /\ env' = None
    /\ lastOp' = "serialize"
    /\ outcome' = "ok"
    /\ UNCHANGED <<now, rng, signedEnv, signKey, tampered, usedKey, lastCreate>>
    /\ UNCHANGED <<dlgVars, protoVars, digestVars, checkVars>>
    /\ UNCHANGED extVars

DeserializeEnvelope ==
    /\ IsSome(wire)
    /\ env' = Some(deserializeEnvelope(Get(wire)))
    /\ wire' = None
    /\ lastOp' = "deserialize"
    /\ outcome' = "ok"
    /\ UNCHANGED <<now, rng, signedEnv, signKey, tampered, usedKey, lastCreate>>
    /\ UNCHANGED <<dlgVars, protoVars, digestVars, checkVars>>
    /\ UNCHANGED extVars

\* the clock advances between calls
Tick ==
    /\ now < MaxNow
    /\ now' = now + 1
    /\ UNCHANGED <<env, wire, rng, signedEnv, signKey, tampered, lastOp, usedKey, outcome, lastCreate>>
    /\ UNCHANGED <<dlgVars, protoVars, digestVars, checkVars>>
    /\ UNCHANGED extVars

EnvNext ==
    \/ CreateEnvelope
    \/ SignEnvelope
    \/ VerifyEnvelope
    \/ CreateResponseEnvelope
    \/ CreateErrorEnvelope
    \/ SerializeEnvelope
    \/ DeserializeEnvelope
    \/ Tick

\* what a party between signer and verifier may put in place of a field of
\* the envelope e: a value different from the one e holds
TamperChoices(e) ==
    { <<"version", e.version + 1>>,
      <<"sender", "agent1qevil">>,
      <<"target", "agent1qevil">>,
      <<"session", "sess-evil">>,
      <<"schemaDigest", "model:evil">>,
      <<"payload", Base64("{\"message\":\"evil\"}")>>,
      <<"expires", Some(Get(e.expires) + 3600)>>,
      <<"nonce", Some("nonce-evil")>>,
      <<"protocolDigest", IF IsSome(e.protocolDigest) THEN None ELSE Some("proto:evil")>>,
      <<"protocolDigest", Some("proto:evil")>>,
      <<"signature", Some("")>>,
      <<"signature", Some("!!not-base64!!")>> }

\* one field of the signed envelope in hand is replaced, the rest kept; this
\* happens once in the life of an envelope
Tamper ==
    /\ IsSome(env)
    /\ env = signedEnv
    /\ ~tampered
    /\ tampered' = TRUE
    /\ \E c \in TamperChoices(Get(env)) :
          env' = Some([Get(env) EXCEPT ![c[1]] = c[2]])
    /\ lastOp' = "tamper"
    /\ outcome' = "ok"
    /\ UNCHANGED <<wire, now, rng, signedEnv, signKey, usedKey, lastCreate>>
    /\ UNCHANGED <<dlgVars, protoVars, digestVars, checkVars>>
    /\ UNCHANGED extVars

TamperNext ==
    \/ CreateEnvelope
    \/ SignEnvelope
    \/ Tamper
    \/ SerializeEnvelope
    \/ DeserializeEnvelope
    \/ VerifyEnvelope

---------------------------------------------------------------------------
(* AgentClient: sendMessage and the dialogue methods *)

DlgInit ==
    /\ posted = <<>>
    /\ dialogues = {}
    /\ result = [success |-> FALSE, messageId |-> None]

\* what the Agentverse API answers to getAgentInfo(targetAddress): the agent with
\* an endpoint, the agent without endpoints, 404, another failure
LookupAnswers == {"found", "noEndpoints", "notFound", "error"}

\* what the agent's endpoint answers to POST /submit: a messageId, nothing, a failure
PostAnswers == {"messageId", "empty", "error"}

\* the envelope sendMessage builds; options carry no session
SendEnvelope(senderAddress, targetAddress, payloadJson, schemaDigest, options, clock, n) ==
    LET e == createEnvelope(senderAddress, targetAddress, payloadJson, schemaDigest,
                            [session |-> None,
                             protocolDigest |-> options.protocolDigest,
                             expirySeconds |-> options.expirySeconds], clock, n)
    IN  IF options.sign /\ IsSome(options.privateKey)
        THEN signEnvelope(e, Get(options.privateKey))
        ELSE [threw |-> FALSE, value |-> e]

\* sendMessage called within the dialogue `dialogue`, after `drawn` random draws
sendMessage(dialogue, senderAddress, targetAddress, payloadJson, schemaDigest, options, drawn) ==
    \E lookup \in LookupAnswers, post \in PostAnswers :
        LET built == SendEnvelope(senderAddress, targetAddress, payloadJson, schemaDigest,
                                  options, now, drawn + 1)
            e == built.value
        IN  IF lookup # "found"
            THEN /\ result' = [success |-> FALSE, messageId |-> None]
                 /\ rng' = drawn
                 /\ UNCHANGED posted
            ELSE /\ rng' = drawn + 1
                 /\ IF built.threw
                    THEN /\ result' = [success |-> FALSE, messageId |-> None]
                         /\ UNCHANGED posted
                    ELSE /\ posted' = Append(posted, [dialogue |-> dialogue, envelope |-> e])
                         /\ result' =
                               IF post = "error" THEN [success |-> FALSE, messageId |-> None]
                               ELSE [success |-> TRUE,
                                     messageId |-> Some(IF post = "messageId" THEN "msg-1"
                                                        ELSE e.session)]

NoOptions == [protocolDigest |-> None, expirySeconds |-> None, sign |-> FALSE, privateKey |-> None]

StartDialogue ==
    /\ Len(posted) < MaxPosted
    /\ Cardinality(dialogues) < MaxDialogues
    /\ LET sessionId == createSessionId(rng + 1)
       IN  /\ dialogues' = dialogues \cup {sessionId}
           /\ \E senderAddress \in Agents, targetAddress \in Agents, d \in SchemaDigests :
                 /\ targetAddress # senderAddress
                 /\ sendMessage(sessionId, senderAddress, targetAddress, RequestJson, d,
                                NoOptions, rng + 1)
    /\ UNCHANGED <<env, wire, now, signedEnv, signKey, tampered, lastOp, usedKey, outcome>>
    /\ UNCHANGED <<lastCreate, protoVars, digestVars, checkVars>>
    /\ UNCHANGED extVars

ContinueDialogue ==
    /\ Len(posted) < MaxPosted
    /\ \E sessionId \in dialogues, senderAddress \in Agents, targetAddress \in Agents,
          d \in SchemaDigests :
          /\ targetAddress # senderAddress
          /\ sendMessage(sessionId, senderAddress, targetAddress, ResponseJson, d,
                         NoOptions, rng)
    /\ UNCHANGED <<env, wire, now, signedEnv, signKey, tampered, lastOp, usedKey, outcome>>
    /\ UNCHANGED <<lastCreate, protoVars, digestVars, checkVars>>
    /\ UNCHANGED extVars
    /\ UNCHANGED dialogues

DlgNext ==
    \/ StartDialogue
    \/ ContinueDialogue

---------------------------------------------------------------------------
(* The manifest manager: two manifests made by createProtocolManifest, on   *)
(* which areProtocolsCompatible and mergeProtocols are called; and an       *)
(* object of any shape handed to validateProtocolManifest.                  *)

SAB == Obj(<< <<"a", Str("string")>>, <<"b", Str("number")>> >>)
SBA == Obj(<< <<"b", Str("number")>>, <<"a", Str("string")>> >>)
SFoo == Obj(<< <<"foo", Str("string")>> >>)
SBar == Obj(<< <<"bar", Str("string")>> >>)

Models ==
    { [name |-> Str("Request"), schema |-> SAB],
      [name |-> Str("Request"), schema |-> SBA],
      [name |-> Str("Response"), schema |-> SAB],
      [name |-> Str("Request"), schema |-> SFoo] }

\* the sequences over S of length at most n
SeqsUpTo(S, n) == UNION {[1..k -> S] : k \in 0..n}

Manifests ==
    { createProtocolManifest(Str("proto"), Str("1.0"), models, <<>>, None) :
          models \in SeqsUpTo(Models, MaxModels) }

\* the models property of an object that may be no manifest
RawModels ==
    { [name |-> n, schema |-> sc] :
          n \in {Str("Request"), Str(""), Undef},
          sc \in {SFoo, Arr(<<>>), Str("string"), Undef} }

RawManifests ==
    { [name |-> n, version |-> v, models |-> ms] :
          n \in {Str("proto"), Str(""), Num(7), Undef},
          v \in {Str("1.0"), Str(""), Undef},
          ms \in {Undef, Str("none")} \cup {Arr(l) : l \in SeqsUpTo(RawModels, MaxModels)} }

DefaultManifest == createSimpleProtocol(Str("simple"), Str("1.0"), SFoo, SBar)

DefaultRaw == [name |-> Str("simple"), version |-> Str("1.0"), models |-> Arr(<<>>)]

ProtoIdle ==
    /\ pa = DefaultManifest
    /\ pb = DefaultManifest
    /\ merged = None
    /\ compat = "none"
    /\ raw = DefaultRaw
    /\ validation = None

ProtoInit ==
    /\ pa \in Manifests
    /\ pb \in Manifests
    /\ merged = None
    /\ compat = "none"
    /\ raw = DefaultRaw
    /\ validation = None

AreProtocolsCompatible ==
    /\ compat' = IF areProtocolsCompatible(pa, pb) THEN "true" ELSE "false"
    /\ UNCHANGED <<pa, pb, merged, raw, validation>>
    /\ UNCHANGED <<envVars, dlgVars, digestVars, checkVars>>
    /\ UNCHANGED extVars

MergeProtocols ==
    /\ merged' = Some(mergeProtocols(pa, pb, Str("merged"), Str("2.0")))
    /\ UNCHANGED <<pa, pb, compat, raw, validation>>
    /\ UNCHANGED <<envVars, dlgVars, digestVars, checkVars>>
    /\ UNCHANGED extVars

\* the models createProtocolManifest is called with: names that differ in case
\* only, and names that are canonically equivalent
NamedModels ==
    { [name |-> Str("Request"), schema |-> SFoo],
      [name |-> Str("Response"), schema |-> SBar],
      [name |-> Str("request"), schema |-> SFoo],
      [name |-> Str("caf\\u00e9"), schema |-> SFoo],
      [name |-> Str("cafe\\u0301"), schema |-> SBar] }

\* a caller makes a manifest and keeps it as pa
CreateProtocolManifest ==
    /\ \E models \in SeqsUpTo(NamedModels, MaxModels) :
          pa' = createProtocolManifest(Str("proto"), Str("1.0"), models, <<>>, None)
    /\ merged' = None
    /\ compat' = "none"
    /\ UNCHANGED <<pb, raw, validation>>
    /\ UNCHANGED <<envVars, dlgVars, digestVars, checkVars>>
    /\ UNCHANGED extVars

\* a caller makes a request-response protocol and keeps it as pb
CreateSimpleProtocol ==
    /\ \E requestSchema \in {SFoo, SBar}, responseSchema \in {SFoo, SBar} :
          pb' = createSimpleProtocol(Str("simple"), Str("1.0"), requestSchema, responseSchema)
    /\ merged' = None
    /\ compat' = "none"
    /\ UNCHANGED <<pa, raw, validation>>
    /\ UNCHANGED <<envVars, dlgVars, digestVars, checkVars>>
    /\ UNCHANGED extVars

\* the manifest mergeProtocols returned is merged with pb once more
MergeProtocolsAgain ==
    /\ IsSome(merged)
    /\ Len(Get(merged).handlers) < MaxHandlers
    /\ merged' = Some(mergeProtocols(Get(merged), pb, Str("merged"), Str("2.0")))
    /\ UNCHANGED <<pa, pb, compat, raw, validation>>
    /\ UNCHANGED <<envVars, dlgVars, digestVars, checkVars>>
    /\ UNCHANGED extVars

ManifestNext ==
    \/ CreateProtocolManifest
    \/ CreateSimpleProtocol
    \/ MergeProtocols
    \/ MergeProtocolsAgain

ProtoNext ==
    \/ AreProtocolsCompatible
    \/ MergeProtocols

ValidateInit ==
    /\ pa = DefaultManifest
    /\ pb = DefaultManifest
    /\ merged = None
    /\ compat = "none"
    /\ raw \in RawManifests
    /\ validation = None

ValidateProtocolManifest ==
    /\ validation' = Some(validateProtocolManifest(raw))
    /\ UNCHANGED <<pa, pb, merged, compat, raw>>
    /\ UNCHANGED <<envVars, dlgVars, digestVars, checkVars>>
    /\ UNCHANGED extVars

ValidateNext == ValidateProtocolManifest

---------------------------------------------------------------------------
(* The schema digest engine: computeModelDigest called on two models        *)

\* schemas with mappings inside mappings, inside sequences, and inside
\* sequences of sequences; x and y are mappings
Nested(x, y) ==
    Obj(<< <<"type", Str("object")>>,
           <<"items", Arr(<<x, Str("string")>>)>>,
           <<"foo", Obj(<< <<"bar", y>> >>)>> >>)

NestedSwapped(x, y) ==
    Obj(<< <<"foo", Obj(<< <<"bar", y>> >>)>>,
           <<"items", Arr(<<x, Str("string")>>)>>,
           <<"type", Str("object")>> >>)

Matrix(x) == Obj(<< <<"items", Arr(<< Arr(<<x>>) >>)>> >>)

DigestSchemas ==
    {Nested(x, y) : x \in {SAB, SBA}, y \in {SAB, SBA}}
    \cup {NestedSwapped(x, y) : x \in {SAB, SBA}, y \in {SAB, SBA}}
    \cup {Matrix(x) : x \in {SAB, SBA}}
    \cup {SAB, SBA, SFoo}

DigestModels ==
    { [name |-> Str(n), schema |-> sc] : n \in {"Request", "Response"}, sc \in DigestSchemas }

DigestIdle ==
    /\ digestModels = << [name |-> Str("Request"), schema |-> SFoo],
                         [name |-> Str("Request"), schema |-> SFoo] >>
    /\ digestCalls = <<>>

DigestInit ==
    /\ digestModels \in DigestModels \X DigestModels
    /\ digestCalls = <<>>

ComputeModelDigest ==
    /\ Len(digestCalls) < MaxCalls
    /\ \E i \in 1..2 :
          digestCalls' = Append(digestCalls,
                                [model |-> i, digest |-> computeModelDigest(digestModels[i])])
    /\ UNCHANGED digestModels
    /\ UNCHANGED <<envVars, dlgVars, protoVars, checkVars>>
    /\ UNCHANGED extVars

DigestNext == ComputeModelDigest

---------------------------------------------------------------------------
(* The receiver's checks: validateEnvelope on an object of any shape, and   *)
(* isExpired on a timestamp, while the clock advances                      *)

DefaultCandidate ==
    EnvelopeValue(createEnvelope("agent1qsender", "agent1qtarget", RequestJson,
                                 "model:test123",
                                 [session |-> None, protocolDigest |-> None,
                                  expirySeconds |-> None], 0, 1))

\* the objects handed to validateEnvelope: each property right, empty, missing
\* or of another type; expires missing, before, at and after the first instant
Candidates ==
    { [version |-> v, sender |-> s, target |-> t, session |-> ss, schemaDigest |-> d,
       payload |-> p, expires |-> x] :
          v \in {Num(ENVELOPE_VERSION), Num(ENVELOPE_VERSION + 1), Str("1")},
          s \in {Str("agent1qsender"), Str(""), Undef},
          t \in {Str("agent1qtarget"), Str(""), Num(7)},
          ss \in {Str("sess-A"), Undef},
          d \in {Str("model:test123"), Str("")},
          p \in {Str(Base64(RequestJson)), Obj(<< <<"message", Str("test")>> >>)},
          x \in {Undef, Num(-1), Num(0), Num(1)} }
    \cup {DefaultCandidate}

\* the timestamps handed to isExpired
Timestamps == (-1)..MaxNow

CheckIdle ==
    /\ candidate = DefaultCandidate
    /\ envValidation = None
    /\ expiryCalls = <<>>

CheckInit ==
    /\ candidate \in Candidates
    /\ envValidation = None
    /\ expiryCalls = <<>>

ValidateEnvelope ==
    /\ envValidation' = Some([clock |-> now, result |-> validateEnvelope(candidate, now)])
    /\ UNCHANGED <<candidate, expiryCalls>>
    /\ UNCHANGED <<envVars, dlgVars, protoVars, digestVars>>
    /\ UNCHANGED extVars

IsExpired ==
    /\ Len(expiryCalls) < MaxCalls
    /\ \E t \in Timestamps :
          expiryCalls' = Append(expiryCalls,
                                [timestamp |-> t, clock |-> now, expired |-> isExpired(t, now)])
    /\ UNCHANGED <<candidate, envValidation>>
    /\ UNCHANGED <<envVars, dlgVars, protoVars, digestVars>>
    /\ UNCHANGED extVars

CheckNext ==
    \/ ValidateEnvelope
    \/ Tick

ExpiryNext ==
    \/ IsExpired
    \/ Tick

---------------------------------------------------------------------------
(* messageUtils: encodePayload and decodePayload, character by character.   *)
(* A text is the sequence of its code points, a Buffer the sequence of its  *)
(* bytes.  The strings of this section are sequences of code points below   *)
(* 2048, so a character takes one or two bytes of UTF-8.                    *)

\* the longest array and the most members of an object among the payloads
MaxItems == 2

Bool(b) == <<"bool", b>>

\* the characters JSON.stringify writes with a backslash
EscapeChar(c) ==
    IF c = 34 THEN <<92, 34>>
    ELSE IF c = 92 THEN <<92, 92>>
    ELSE IF c = 10 THEN <<92, 110>>
    ELSE <<c>>

RECURSIVE EscapeChars(_)
EscapeChars(s) == IF s = <<>> THEN <<>> ELSE EscapeChar(Head(s)) \o EscapeChars(Tail(s))

\* JSON.stringify of a string: QuoteJSONString
QuoteChars(s) == <<34>> \o EscapeChars(s) \o <<34>>

RECURSIVE DigitChars(_)
DigitChars(n) == IF n < 10 THEN <<48 + n>> ELSE DigitChars(n \div 10) \o <<48 + (n % 10)>>

\* JSON.stringify of an integer
NumberChars(n) == IF n < 0 THEN <<45>> \o DigitChars(-n) ELSE DigitChars(n)

RECURSIVE JoinChars(_)
JoinChars(parts) ==
    IF parts = <<>> THEN <<>>
    ELSE IF Len(parts) = 1 THEN parts[1]
    ELSE parts[1] \o <<44>> \o JoinChars(Tail(parts))

\* JSON.stringify(value), value holding no undefined, function or symbol
RECURSIVE StringifyChars(_)
StringifyChars(v) ==
    CASE v[1] = "str"  -> QuoteChars(v[2])
      [] v[1] = "num"  -> NumberChars(v[2])
      [] v[1] = "bool" -> IF v[2] THEN <<116, 114, 117, 101>> ELSE <<102, 97, 108, 115, 101>>
      [] v[1] = "arr"  ->
            <<91>> \o JoinChars([i \in 1..Len(v[2]) |-> StringifyChars(v[2][i])]) \o <<93>>
      [] v[1] = "obj"  ->
            <<123>> \o JoinChars([i \in 1..Len(v[2]) |->
                                    QuoteChars(v[2][i][1]) \o <<58>> \o StringifyChars(v[2][i][2])])
            \o <<125>>
      [] OTHER -> <<110, 117, 108, 108>>

\* the character an escape sequence of JSON text stands for, taken as written
Unescape_Verbatim(c) == c

\* the character an escape sequence of JSON text stands for
Unescape(c) == IF c = 110 THEN 10 ELSE c

RECURSIVE ScanString(_, _, _)
ScanString(t, j, acc) ==
    IF t[j] = 34 THEN <<acc, j + 1>>
    ELSE IF t[j] = 92 THEN ScanString(t, j + 2, Append(acc, Unescape(t[j + 1])))
    ELSE ScanString(t, j + 1, Append(acc, t[j]))

RECURSIVE ScanDigits(_, _, _)
ScanDigits(t, j, n) ==
    IF j <= Len(t) /\ t[j] \in 48..57 THEN ScanDigits(t, j + 1, 10 * n + (t[j] - 48))
    ELSE <<n, j>>

\* the JSON grammar on text without white space: the value that starts at t[i]
\* and the index after it
RECURSIVE ParseValue(_, _), ParseElements(_, _, _), ParseMembers(_, _, _)
ParseValue(t, i) ==
    CASE t[i] = 123 -> IF t[i + 1] = 125 THEN <<Obj(<<>>), i + 2>>
                       ELSE ParseMembers(t, i + 1, <<>>)
      [] t[i] = 91  -> IF t[i + 1] = 93 THEN <<Arr(<<>>), i + 2>>
                       ELSE ParseElements(t, i + 1, <<>>)
      [] t[i] = 34  -> LET r == ScanString(t, i + 1, <<>>) IN <<Str(r[1]), r[2]>>
      [] t[i] = 110 -> <<Null, i + 4>>
      [] t[i] = 116 -> <<Bool(TRUE), i + 4>>
      [] t[i] = 102 -> <<Bool(FALSE), i + 5>>
      [] t[i] = 45  -> LET r == ScanDigits(t, i + 1, 0) IN <<Num(-r[1]), r[2]>>
      [] OTHER      -> LET r == ScanDigits(t, i, 0) IN <<Num(r[1]), r[2]>>

ParseElements(t, i, acc) ==
    LET r == ParseValue(t, i)
    IN  IF t[r[2]] = 44 THEN ParseElements(t, r[2] + 1, Append(acc, r[1]))
        ELSE <<Arr(Append(acc, r[1])), r[2] + 1>>

ParseMembers(t, i, acc) ==
    LET k == ScanString(t, i + 1, <<>>)
        v == ParseValue(t, k[2] + 1)
        m == Append(acc, <<k[1], v[1]>>)
    IN  IF t[v[2]] = 44 THEN ParseMembers(t, v[2] + 1, m)
        ELSE <<Obj(m), v[2] + 1>>

\* JSON.parse(text)
ParseChars(t) == ParseValue(t, 1)[1]

\* Buffer.from(text): the UTF-8 bytes of the text
RECURSIVE Utf8Encode(_)
Utf8Encode(t) ==
    IF t = <<>> THEN <<>>
    ELSE (IF Head(t) < 128 THEN <<Head(t)>>
          ELSE <<192 + (Head(t) \div 64), 128 + (Head(t) % 64)>>)
         \o Utf8Encode(Tail(t))

\* buffer.toString('utf-8')
RECURSIVE Utf8Decode(_)
Utf8Decode(b) ==
    IF b = <<>> THEN <<>>
    ELSE IF b[1] < 128 THEN <<b[1]>> \o Utf8Decode(Tail(b))
    ELSE <<(b[1] - 192) * 64 + (b[2] - 128)>> \o Utf8Decode(Tail(Tail(b)))

\* the character of the base64 alphabet for a 6-bit value, and back
B64Char(n) ==
    IF n < 26 THEN 65 + n
    ELSE IF n < 52 THEN 97 + (n - 26)
    ELSE IF n < 62 THEN 48 + (n - 52)
    ELSE IF n = 62 THEN 43 ELSE 47

B64Value(c) ==
    IF c \in 65..90 THEN c - 65
    ELSE IF c \in 97..122 THEN c - 97 + 26
    ELSE IF c \in 48..57 THEN c - 48 + 52
    ELSE IF c = 43 THEN 62 ELSE 63

\* buffer.toString('base64')
RECURSIVE Base64Encode(_)
Base64Encode(b) ==
    IF b = <<>> THEN <<>>
    ELSE IF Len(b) = 1
         THEN <<B64Char(b[1] \div 4), B64Char((b[1] % 4) * 16), 61, 61>>
    ELSE IF Len(b) = 2
         THEN <<B64Char(b[1] \div 4), B64Char((b[1] % 4) * 16 + (b[2] \div 16)),
                B64Char((b[2] % 16) * 4), 61>>
    ELSE <<B64Char(b[1] \div 4), B64Char((b[1] % 4) * 16 + (b[2] \div 16)),
           B64Char((b[2] % 16) * 4 + (b[3] \div 64)), B64Char(b[3] % 64)>>
         \o Base64Encode(SubSeq(b, 4, Len(b)))

\* Buffer.from(text, 'base64')
RECURSIVE Base64Decode(_)
Base64Decode(t) ==
    IF Len(t) < 4 THEN <<>>
    ELSE LET v1 == B64Value(t[1])
             v2 == B64Value(t[2])
             v3 == B64Value(t[3])
             v4 == B64Value(t[4])
             b1 == v1 * 4 + (v2 \div 16)
             b2 == (v2 % 16) * 16 + (v3 \div 4)
             b3 == (v3 % 4) * 64 + v4
         IN  IF t[3] = 61 THEN <<b1>>
             ELSE IF t[4] = 61 THEN <<b1, b2>>
             ELSE <<b1, b2, b3>> \o Base64Decode(SubSeq(t, 5, Len(t)))

\* encodePayload(payload), the text it returns as code points
encodePayloadChars(payload) == Base64Encode(Utf8Encode(StringifyChars(payload)))

\* decodePayload(envelope), envelope.payload as code points
decodePayloadChars(envelope) == ParseChars(Utf8Decode(Base64Decode(envelope.payload)))

---------------------------------------------------------------------------
(* The payload codec: a payload is encoded, and the text is decoded *)

\* strings with a quote, a backslash, a line feed, JSON punctuation and U+00E9
CodecStrings == { <<>>, <<107>>, <<97, 34, 98>>, <<92, 110>>, <<10, 123, 58, 44>>, <<233, 93>> }

CodecScalars ==
    {Null, Bool(TRUE), Bool(FALSE), Num(0), Num(-12), Num(305)} \cup {Str(s) : s \in CodecStrings}

CodecArrays == {Arr(items) : items \in SeqsUpTo(CodecScalars, MaxItems)}

CodecKeys == << <<107>>, <<34, 233>>, <<92>> >>

\* the objects with up to MaxItems members under distinct keys, and the objects
\* that hold an array, directly or in an object of their own
CodecPayloads ==
    UNION {{Obj([i \in 1..Len(vs) |-> <<CodecKeys[i], vs[i]>>]) :
                vs \in SeqsUpTo(CodecScalars \cup {Arr(<<>>), Obj(<<>>)}, MaxItems)},
           {Obj(<< <<CodecKeys[1], a>> >>) : a \in CodecArrays},
           {Obj(<< <<CodecKeys[2], Obj(<< <<CodecKeys[3], a>> >>)>> >>) : a \in CodecArrays}}

CodecIdle ==
    /\ codecIn = Obj(<<>>)
    /\ codecText = None
    /\ codecOut = None

CodecInit ==
    /\ codecIn \in CodecPayloads
    /\ codecText = None
    /\ codecOut = None

EncodePayload ==
    /\ codecText = None
    /\ codecText' = Some(encodePayloadChars(codecIn))
    /\ UNCHANGED <<codecIn, codecOut>>
    /\ UNCHANGED <<coreVars, replyVars, unitVars, triggerVars, waitVars, schemaVars>>

DecodePayload ==
    /\ IsSome(codecText)
    /\ codecOut = None
    /\ codecOut' = Some(decodePayloadChars([payload |-> Get(codecText)]))
    /\ UNCHANGED <<codecIn, codecText>>
    /\ UNCHANGED <<coreVars, replyVars, unitVars, triggerVars, waitVars, schemaVars>>

CodecNext ==
    \/ EncodePayload
    \/ DecodePayload

---------------------------------------------------------------------------
(* The responder: an envelope comes off the wire as deserializeEnvelope     *)
(* returns it, and response and error envelopes are made for it             *)

\* the session of a received envelope: a UUID, a caller's own id, the empty string
ReceivedSessions == {"uuid-0", "sess-A", ""}

\* the envelopes a peer can send: AgentEnvelope objects as JSON.parse gives them
Originals ==
    { [version        |-> ENVELOPE_VERSION,
       sender         |-> s,
       target         |-> t,
       session        |-> ss,
       schemaDigest   |-> "model:test123",
       protocolDigest |-> pd,
       payload        |-> Base64(RequestJson),
       expires        |-> Some(DEFAULT_MESSAGE_EXPIRY),
       nonce          |-> Some("nonce-0"),
       signature      |-> sig] :
         s \in Agents, t \in Agents, ss \in ReceivedSessions,
         pd \in ProtocolDigestOptions \cup {Some("")},
         sig \in {None, Some(SignatureOf(1, "peer"))} }

ReplyIdle ==
    /\ received = CHOOSE o \in Originals : TRUE
    /\ reply = None

ReplyInit ==
    /\ received \in Originals
    /\ reply = None

\* createResponseEnvelope(received, sender, {test: 'data'}, schemaDigest)
ReplyWithResponse ==
    /\ rng < MaxIds
    /\ \E sender \in Agents, d \in SchemaDigests :
          reply' = Some([op |-> "response", sender |-> sender, schemaDigest |-> d,
                         envelope |-> createResponseEnvelope(received, sender, ResponseJson, d,
                                                             now, rng + 1)])
    /\ rng' = rng + 1
    /\ UNCHANGED <<env, wire, now, signedEnv, signKey, tampered, lastOp, usedKey, outcome,
                   lastCreate>>
    /\ UNCHANGED <<dlgVars, protoVars, digestVars, checkVars>>
    /\ UNCHANGED <<received, codecVars, unitVars, triggerVars, waitVars, schemaVars>>

\* createErrorEnvelope(received, sender, 'E1', 'failed')
ReplyWithError ==
    /\ rng < MaxIds
    /\ \E sender \in Agents :
          reply' = Some([op |-> "error", sender |-> sender, schemaDigest |-> "",
                         envelope |-> createErrorEnvelope(received, sender, "E1", "failed",
                                                          now, rng + 1)])
    /\ rng' = rng + 1
    /\ UNCHANGED <<env, wire, now, signedEnv, signKey, tampered, lastOp, usedKey, outcome,
                   lastCreate>>
    /\ UNCHANGED <<dlgVars, protoVars, digestVars, checkVars>>
    /\ UNCHANGED <<received, codecVars, unitVars, triggerVars, waitVars, schemaVars>>

ReplyNext ==
    \/ ReplyWithResponse
    \/ ReplyWithError
    \/ Tick

---------------------------------------------------------------------------
(* unitConverter: fetToAfet, afetToFet and parseAmount.  A string is the    *)
(* sequence of its characters: 10^18 is beyond the integers of the model,   *)
(* and the code itself converts by moving digits.                           *)

FET_DECIMALS == 18

\* the most digits before and after the point among the short amounts
MaxWholeDigits == 3
MaxFracDigits == 3

Zeros(n) == [i \in 1..n |-> "0"]

\* s.replace(/^0+/, '')
RECURSIVE StripLeadingZeros(_)
StripLeadingZeros(s) ==
    IF s # <<>> /\ Head(s) = "0" THEN StripLeadingZeros(Tail(s)) ELSE s

\* s.replace(/0+$/, '')
RECURSIVE StripTrailingZeros(_)
StripTrailingZeros(s) ==
    IF s # <<>> /\ s[Len(s)] = "0" THEN StripTrailingZeros(SubSeq(s, 1, Len(s) - 1)) ELSE s

\* a || b on strings
OrElseChars(s, d) == IF s # <<>> THEN s ELSE d

\* where the first '.' of s stands, 0 when there is none
PointAt(s) ==
    IF \E i \in 1..Len(s) : s[i] = "."
    THEN CHOOSE i \in 1..Len(s) : s[i] = "." /\ \A j \in 1..(i - 1) : s[j] # "."
    ELSE 0

\* s.split('.'): parts[0], and parts[1] (undefined when s has no '.')
SplitWhole(s) == IF PointAt(s) = 0 THEN s ELSE SubSeq(s, 1, PointAt(s) - 1)

SplitDecimal(s) ==
    IF PointAt(s) = 0 THEN None
    ELSE LET rest == SubSeq(s, PointAt(s) + 1, Len(s))
         IN  Some(IF PointAt(rest) = 0 THEN rest ELSE SubSeq(rest, 1, PointAt(rest) - 1))

\* s.padEnd(n, '0') and s.padStart(n, '0')
PadEnd(s, n) == IF Len(s) < n THEN s \o Zeros(n - Len(s)) ELSE s
PadStart(s, n) == IF Len(s) < n THEN Zeros(n - Len(s)) \o s ELSE s

\* fetToAfet keeping the zeros in front of the digits
fetToAfet_LeadingZeros(fet) ==
    IF fet = <<>> \/ fet = <<"0">> THEN <<"0">>
    ELSE LET wholePart == OrElseChars(SplitWhole(fet), <<"0">>)
             parts1 == IF IsSome(SplitDecimal(fet)) THEN Get(SplitDecimal(fet)) ELSE <<>>
             decimalPart == IF Len(parts1) < FET_DECIMALS THEN PadEnd(parts1, FET_DECIMALS)
                            ELSE SubSeq(parts1, 1, FET_DECIMALS)
         IN  wholePart \o decimalPart

\* fetToAfet(fet), fet a string
fetToAfet(fet) ==
    IF fet = <<>> \/ fet = <<"0">> THEN <<"0">>
    ELSE LET wholePart == OrElseChars(SplitWhole(fet), <<"0">>)
             parts1 == IF IsSome(SplitDecimal(fet)) THEN Get(SplitDecimal(fet)) ELSE <<>>
             decimalPart == IF Len(parts1) < FET_DECIMALS THEN PadEnd(parts1, FET_DECIMALS)
                            ELSE SubSeq(parts1, 1, FET_DECIMALS)
         IN  OrElseChars(StripLeadingZeros(wholePart \o decimalPart), <<"0">>)

\* afetToFet(afet), afet a string
afetToFet(afet) ==
    IF afet = <<>> \/ afet = <<"0">> THEN <<"0">>
    ELSE LET paddedAfet == PadStart(afet, FET_DECIMALS + 1)
             splitPoint == Len(paddedAfet) - FET_DECIMALS
             wholePart == OrElseChars(StripLeadingZeros(SubSeq(paddedAfet, 1, splitPoint)),
                                      <<"0">>)
             decimalPart == StripTrailingZeros(SubSeq(paddedAfet, splitPoint + 1,
                                                      Len(paddedAfet)))
         IN  IF decimalPart # <<>> THEN wholePart \o <<".">> \o decimalPart ELSE wholePart

\* s.trim(), the white space of the inputs being the space
RECURSIVE TrimStart(_)
TrimStart(s) == IF s # <<>> /\ Head(s) = " " THEN TrimStart(Tail(s)) ELSE s

RECURSIVE TrimEnd(_)
TrimEnd(s) == IF s # <<>> /\ s[Len(s)] = " " THEN TrimEnd(SubSeq(s, 1, Len(s) - 1)) ELSE s

Trim(s) == TrimEnd(TrimStart(s))

\* s.toLowerCase() on the letters of the denominations
ToLowerCase(s) ==
    [i \in 1..Len(s) |->
        CASE s[i] = "A" -> "a" [] s[i] = "F" -> "f" [] s[i] = "E" -> "e" [] s[i] = "T" -> "t"
          [] OTHER -> s[i]]

EndsWith(s, suffix) ==
    Len(s) >= Len(suffix) /\ SubSeq(s, Len(s) - Len(suffix) + 1, Len(s)) = suffix

\* s.replace(/\s*<suffix>$/, ''), s ending with the suffix
StripSuffix(s, suffix) == TrimEnd(SubSeq(s, 1, Len(s) - Len(suffix)))

\* the value of a string of at most seven digits
RECURSIVE DigitsValue(_)
DigitsValue(s) ==
    IF s = <<>> THEN 0
    ELSE 10 * DigitsValue(SubSeq(s, 1, Len(s) - 1))
         + (CHOOSE d \in 0..9 : ToString(d) = s[Len(s)])

\* BigInt(s) > BigInt(1000000), s a string of digits
OverMillion(s) ==
    LET digits == StripLeadingZeros(s)
    IN  Len(digits) > 7 \/ (Len(digits) = 7 /\ DigitsValue(digits) > 1000000)

\* parseAmount(input)
parseAmount(input) ==
    LET trimmed == ToLowerCase(Trim(input))
    IN  IF EndsWith(trimmed, <<"a", "f", "e", "t">>)
        THEN Trim(StripSuffix(trimmed, <<"a", "f", "e", "t">>))
        ELSE IF EndsWith(trimmed, <<"f", "e", "t">>)
        THEN fetToAfet(Trim(StripSuffix(trimmed, <<"f", "e", "t">>)))
        ELSE IF PointAt(trimmed) # 0 THEN fetToAfet(trimmed)
        ELSE IF OverMillion(trimmed) THEN trimmed
        ELSE fetToAfet(trimmed)

---------------------------------------------------------------------------
(* The converter: an amount in plain decimal notation is converted to afet  *)
(* and back, and parsed with and without a denomination                     *)

AmountDigits == {"0", "1"}

\* the digits before the point: short ones, one million and one million and one
WholeParts ==
    SeqsUpTo(AmountDigits, MaxWholeDigits)
    \cup {<<"1">> \o Zeros(6), <<"1">> \o Zeros(5) \o <<"1">>}

\* the digits after the point: short ones, and 17 and 18 of them
FracParts ==
    SeqsUpTo(AmountDigits, MaxFracDigits)
    \cup {Zeros(FET_DECIMALS - 2) \o <<"5">>, Zeros(FET_DECIMALS - 1) \o <<"5">>,
          Zeros(FET_DECIMALS)}

\* non-negative amounts in plain decimal notation, at most 18 fractional digits
Amounts ==
    {w \in WholeParts : w # <<>>}
    \cup {w \o <<".">> \o f : w \in WholeParts, f \in {g \in FracParts : g # <<>>}}
    \cup {w \o <<".">> : w \in {v \in WholeParts : v # <<>>}}

\* what follows the amount in the input of parseAmount
Denominations ==
    { <<>>, <<" ", "F", "E", "T">>, <<"F", "E", "T">>, <<" ", "f", "e", "t">>,
      <<" ", "a", "f", "e", "t">> }

UnitIdle ==
    /\ unitIn = <<"0">>
    /\ unitOut = None

UnitInit ==
    /\ unitIn \in Amounts
    /\ unitOut = None

FetToAfet ==
    /\ unitOut' = Some([fn |-> "fetToAfet", input |-> unitIn, output |-> fetToAfet(unitIn)])
    /\ UNCHANGED unitIn
    /\ UNCHANGED <<coreVars, codecVars, replyVars, triggerVars, waitVars, schemaVars>>

\* afetToFet on what fetToAfet returned
AfetToFet ==
    /\ IsSome(unitOut)
    /\ Get(unitOut).fn = "fetToAfet"
    /\ unitOut' = Some([fn |-> "afetToFet", input |-> Get(unitOut).output,
                        output |-> afetToFet(Get(unitOut).output)])
    /\ UNCHANGED unitIn
    /\ UNCHANGED <<coreVars, codecVars, replyVars, triggerVars, waitVars, schemaVars>>

ParseAmount ==
    /\ \E denom \in Denominations :
          unitOut' = Some([fn |-> "parseAmount", input |-> unitIn \o denom,
                           output |-> parseAmount(unitIn \o denom)])
    /\ UNCHANGED unitIn
    /\ UNCHANGED <<coreVars, codecVars, replyVars, triggerVars, waitVars, schemaVars>>

UnitNext ==
    \/ FetToAfet
    \/ AfetToFet
    \/ ParseAmount

---------------------------------------------------------------------------
(* FetchaiTrigger.poll.  The node parameters the events need are set        *)
(* (address, agentAddress, taskId, txHash, proposalId, contractAddress, the *)
(* Agentverse API key), so every poll makes its HTTP request.               *)

\* how many polls a behaviour holds
MaxPolls == 3

\* the node parameter minChange, in FET: its default
minChange == 0

\* what axios.get gives: a rejection, or the data of the response
Failed == [failed |-> TRUE, data |-> <<>>]
Ok(d) == [failed |-> FALSE, data |-> d]

\* getWorkflowStaticData('node') before the first poll
NoData ==
    [lastBalance |-> None, lastBlockHeight |-> None, lastProposalId |-> None,
     lastProposalStatus |-> None, lastContractTxHash |-> None, lastMessageId |-> None,
     lastAgentStatus |-> None, lastTaskStatus |-> None, txConfirmed |-> None]

\* where the body of poll stands when it ends: the static data, returnData, and
\* whether an exception is on its way out of the body
Thrown(data) == [threw |-> TRUE, data |-> data, returnData |-> <<>>]
Done(data, returnData) == [threw |-> FALSE, data |-> data, returnData |-> returnData]

Abs(n) == IF n < 0 THEN -n ELSE n

RECURSIVE MaxOf(_)
MaxOf(items) ==
    IF Len(items) = 1 THEN items[1]
    ELSE IF items[1] > MaxOf(Tail(items)) THEN items[1] ELSE MaxOf(Tail(items))

\* balanceChanged, fetReceived, fetSent: r.data is the amount of the afet balance
\* (<<>> when the account has none), counted in FET
PollAccount(event, data, r) ==
    IF r.failed THEN Thrown(data)
    ELSE LET currentBalance == IF IsSome(r.data) THEN Get(r.data) ELSE 0
             previousBalance == IF IsSome(data.lastBalance) THEN Get(data.lastBalance)
                                ELSE currentBalance
             change == currentBalance - previousBalance
             emit == /\ currentBalance # previousBalance
                     /\ Abs(change) >= minChange
                     /\ \/ event = "balanceChanged"
                        \/ event = "fetReceived" /\ change > 0
                        \/ event = "fetSent" /\ change < 0
         IN  Done([data EXCEPT !.lastBalance = Some(currentBalance)],
                  IF emit THEN << [event |-> event, previousBalance |-> previousBalance,
                                   currentBalance |-> currentBalance, change |-> change] >>
                  ELSE <<>>)

\* mailboxMessageReceived: r.data is the list of message ids
PollMailbox(data, r) ==
    IF r.failed THEN Done(data, <<>>)
    ELSE LET messages == r.data
             lastMessageId == data.lastMessageId
             IsNew(id) == lastMessageId = None \/ id > Get(lastMessageId)
         IN  Done(IF Len(messages) > 0
                  THEN [data EXCEPT !.lastMessageId = Some(messages[1])] ELSE data,
                  [i \in 1..Len(SelectSeq(messages, IsNew)) |->
                      [event |-> "mailboxMessageReceived",
                       messageId |-> SelectSeq(messages, IsNew)[i]]])

\* agentStatusChanged: r.data is response.data?.status
PollAgentStatus(data, r) ==
    IF r.failed THEN Done(data, <<>>)
    ELSE LET currentStatus == r.data
             previousStatus == data.lastAgentStatus
         IN  Done([data EXCEPT !.lastAgentStatus = currentStatus],
                  IF IsSome(previousStatus) /\ currentStatus # previousStatus
                  THEN << [event |-> "agentStatusChanged", previousStatus |-> previousStatus,
                           currentStatus |-> currentStatus] >>
                  ELSE <<>>)

\* taskCompleted, taskFailed: r.data is response.data?.status
PollTask(event, data, r) ==
    IF r.failed THEN Done(data, <<>>)
    ELSE LET currentStatus == r.data
             previousStatus == data.lastTaskStatus
         IN  Done([data EXCEPT !.lastTaskStatus = currentStatus],
                  IF /\ previousStatus # currentStatus
                     /\ \/ event = "taskCompleted" /\ currentStatus = Some("completed")
                        \/ event = "taskFailed" /\ currentStatus = Some("failed")
                  THEN << [event |-> event, status |-> currentStatus] >>
                  ELSE <<>>)

\* newBlock: r.data is response.data.block?.header?.height, a decimal string
PollNewBlock(data, r) ==
    IF r.failed THEN Thrown(data)
    ELSE LET currentHeight == IF IsSome(r.data) THEN Get(r.data) ELSE 0
             lastHeight == OrElseNum(data.lastBlockHeight, 0)
         IN  Done([data EXCEPT !.lastBlockHeight = Some(currentHeight)],
                  IF currentHeight > lastHeight
                  THEN << [event |-> "newBlock", height |-> currentHeight] >>
                  ELSE <<>>)

\* transactionConfirmed: r.data is whether the response has a tx_response
PollTransaction(data, r) ==
    IF r.failed THEN Done(data, <<>>)
    ELSE IF data.txConfirmed # Some(TRUE) /\ r.data
         THEN Done([data EXCEPT !.txConfirmed = Some(TRUE)],
                   << [event |-> "transactionConfirmed"] >>)
         ELSE Done(data, <<>>)

\* newProposal: r.data is the list of proposal ids
PollNewProposal(data, r) ==
    IF r.failed THEN Thrown(data)
    ELSE LET proposals == r.data
             lastProposalId == IF IsSome(data.lastProposalId) THEN Get(data.lastProposalId)
                               ELSE 0
             IsNew(id) == id > lastProposalId
         IN  Done(IF Len(proposals) > 0
                  THEN [data EXCEPT !.lastProposalId = Some(MaxOf(proposals))] ELSE data,
                  [i \in 1..Len(SelectSeq(proposals, IsNew)) |->
                      [event |-> "newProposal", proposalId |-> SelectSeq(proposals, IsNew)[i]]])

\* proposalPassed, proposalFailed: r.data is response.data.proposal?.status
PollProposalStatus(event, data, r) ==
    IF r.failed THEN Thrown(data)
    ELSE LET currentStatus == r.data
             previousStatus == data.lastProposalStatus
         IN  Done([data EXCEPT !.lastProposalStatus = currentStatus],
                  IF /\ IsSome(previousStatus)
                     /\ currentStatus # previousStatus
                     /\ \/ /\ event = "proposalPassed"
                           /\ currentStatus = Some("PROPOSAL_STATUS_PASSED")
                        \/ /\ event = "proposalFailed"
                           /\ currentStatus = Some("PROPOSAL_STATUS_REJECTED")
                  THEN << [event |-> event, status |-> currentStatus] >>
                  ELSE <<>>)

\* contractExecuted: r.data is the list of the txhash of response.data.tx_responses
PollContract(data, r) ==
    IF r.failed THEN Thrown(data)
    ELSE LET txs == r.data
             lastTxHash == data.lastContractTxHash
             IsNew(txhash) == Some(txhash) # lastTxHash
         IN  Done(IF Len(txs) > 0
                  THEN [data EXCEPT !.lastContractTxHash = Some(txs[1])] ELSE data,
                  [i \in 1..Len(SelectSeq(txs, IsNew)) |->
                      [event |-> "contractExecuted", txHash |-> SelectSeq(txs, IsNew)[i]]])

\* the try block of poll
PollBody(event, data, r) ==
    CASE event \in {"balanceChanged", "fetReceived", "fetSent"} -> PollAccount(event, data, r)
      [] event = "mailboxMessageReceived" -> PollMailbox(data, r)
      [] event = "agentStatusChanged" -> PollAgentStatus(data, r)
      [] event \in {"taskCompleted", "taskFailed"} -> PollTask(event, data, r)
      [] event = "newBlock" -> PollNewBlock(data, r)
      [] event = "transactionConfirmed" -> PollTransaction(data, r)
      [] event = "newProposal" -> PollNewProposal(data, r)
      [] event \in {"proposalPassed", "proposalFailed"} -> PollProposalStatus(event, data, r)
      [] event = "contractExecuted" -> PollContract(data, r)

\* a catch clause that throws the error on
PollCatch_Rethrow(b) == b

\* the catch clause of poll: the error is logged
PollCatch(b) == [b EXCEPT !.threw = FALSE]

\* poll(): the static data it leaves, whether it threw, and what it returned
\* (<<>> for null)
poll(event, data, r) ==
    LET b == PollCatch(PollBody(event, data, r))
    IN  [data |-> b.data, threw |-> b.threw,
         returned |-> IF b.threw \/ b.returnData = <<>> THEN None ELSE Some(b.returnData)]

---------------------------------------------------------------------------
(* The trigger node: n8n calls poll again and again, the static data being  *)
(* kept from one poll to the next                                           *)

TriggerEvents ==
    {"balanceChanged", "fetReceived", "fetSent", "mailboxMessageReceived",
     "agentStatusChanged", "taskCompleted", "taskFailed", "newBlock",
     "transactionConfirmed", "newProposal", "proposalPassed", "proposalFailed",
     "contractExecuted"}

\* the responses the endpoint of an event can give
Responses(event) ==
    {Failed} \cup
    CASE event \in {"balanceChanged", "fetReceived", "fetSent"} ->
            {Ok(None), Ok(Some(0)), Ok(Some(1)), Ok(Some(3))}
      [] event = "mailboxMessageReceived" -> {Ok(<<>>), Ok(<<1>>), Ok(<<2, 1>>), Ok(<<3, 2, 1>>)}
      [] event = "agentStatusChanged" -> {Ok(None), Ok(Some("active")), Ok(Some("inactive"))}
      [] event \in {"taskCompleted", "taskFailed"} ->
            {Ok(None), Ok(Some("pending")), Ok(Some("completed")), Ok(Some("failed"))}
      [] event = "newBlock" -> {Ok(None), Ok(Some(1)), Ok(Some(2)), Ok(Some(3))}
      [] event = "transactionConfirmed" -> {Ok(FALSE), Ok(TRUE)}
      [] event = "newProposal" -> {Ok(<<>>), Ok(<<1>>), Ok(<<1, 2>>), Ok(<<3>>)}
      [] event \in {"proposalPassed", "proposalFailed"} ->
            {Ok(None), Ok(Some("PROPOSAL_STATUS_VOTING_PERIOD")),
             Ok(Some("PROPOSAL_STATUS_PASSED")), Ok(Some("PROPOSAL_STATUS_REJECTED"))}
      [] event = "contractExecuted" ->
            {Ok(<<>>), Ok(<<"A">>), Ok(<<"B", "A">>), Ok(<<"C", "B", "A">>)}

TriggerIdle ==
    /\ triggerEvent = "newBlock"
    /\ webhookData = NoData
    /\ polls = <<>>

TriggerInit ==
    /\ triggerEvent \in TriggerEvents
    /\ webhookData = NoData
    /\ polls = <<>>

Poll ==
    /\ Len(polls) < MaxPolls
    /\ \E r \in Responses(triggerEvent) :
          LET p == poll(triggerEvent, webhookData, r)
          IN  /\ webhookData' = p.data
              /\ polls' = Append(polls, [response |-> r, before |-> webhookData,
                                         after |-> p.data, threw |-> p.threw,
                                         returned |-> p.returned])
    /\ UNCHANGED triggerEvent
    /\ UNCHANGED <<coreVars, codecVars, replyVars, unitVars, waitVars, schemaVars>>

TriggerNext == Poll

---------------------------------------------------------------------------
(* DeltaVClient.waitForTask.  Time is in milliseconds.                      *)

\* the values of TaskStatus
TaskStatuses == {"pending", "processing", "completed", "failed", "cancelled", "timeout"}

\* the test of the loop for a status that ends it, taking every status but
\* 'pending' and 'processing' for one
IsFinalStatus_NotRunning(status) == status \notin {"pending", "processing"}

\* status.status === COMPLETED || status.status === FAILED || status.status === CANCELLED
IsFinalStatus(status) == status \in {"completed", "failed", "cancelled"}

\* options.pollInterval || 2000 and options.timeout || 300000
PollIntervalOf(options) == OrElseNum(options.pollInterval, 2000)
TimeoutOf(options) == OrElseNum(options.timeout, 300000)

\* the options of the callers: not given, zero, and values of their own
WaitOptions ==
    [pollInterval : {None, Some(0), Some(60000)},
     timeout : {None, Some(0), Some(5000), Some(-1)}]

\* how long getTaskStatus takes: no time, a second, and as long as the timeout
RequestDurations(options) == {0, 1000, TimeoutOf(options)}

\* how long setTimeout(resolve, pollInterval) takes: the delay, at least one
\* millisecond, and what the event loop adds to it
SleepDurations(options) ==
    LET delay == IF PollIntervalOf(options) < 1 THEN 1 ELSE PollIntervalOf(options)
    IN  {delay, delay + 1000}

WaitIdle ==
    /\ waitOptions = [pollInterval |-> None, timeout |-> None]
    /\ waitPc = "idle"
    /\ waitElapsed = 0
    /\ waitSeen = {}
    /\ waitResult = None

\* waitForTask(taskId, options) is called: startTime = Date.now()
WaitInit ==
    /\ waitOptions \in WaitOptions
    /\ waitPc = "test"
    /\ waitElapsed = 0
    /\ waitSeen = {}
    /\ waitResult = None

\* while (Date.now() - startTime < timeout), and the throw after the loop
WaitTest ==
    /\ waitPc = "test"
    /\ IF waitElapsed < TimeoutOf(waitOptions)
       THEN waitPc' = "request" /\ UNCHANGED waitResult
       ELSE waitPc' = "thrown" /\ waitResult' = Some("Task timeout")
    /\ UNCHANGED <<waitOptions, waitElapsed, waitSeen>>
    /\ UNCHANGED <<coreVars, codecVars, replyVars, unitVars, triggerVars, schemaVars>>

\* getTaskStatus returns a status: the loop returns it or goes to sleep
WaitStatus ==
    /\ waitPc = "request"
    /\ \E d \in RequestDurations(waitOptions), status \in TaskStatuses :
          /\ waitElapsed' = waitElapsed + d
          /\ IF IsFinalStatus(status)
             THEN /\ waitPc' = "returned"
                  /\ waitResult' = Some(status)
                  /\ UNCHANGED waitSeen
             ELSE /\ waitPc' = "sleep"
                  /\ waitSeen' = waitSeen \cup {status}
                  /\ UNCHANGED waitResult
    /\ UNCHANGED waitOptions
    /\ UNCHANGED <<coreVars, codecVars, replyVars, unitVars, triggerVars, schemaVars>>

\* getTaskStatus throws: the error leaves waitForTask
WaitRequestFails ==
    /\ waitPc = "request"
    /\ \E d \in RequestDurations(waitOptions) : waitElapsed' = waitElapsed + d
    /\ waitPc' = "thrown"
    /\ waitResult' = Some("DeltaV API error")
    /\ UNCHANGED <<waitOptions, waitSeen>>
    /\ UNCHANGED <<coreVars, codecVars, replyVars, unitVars, triggerVars, schemaVars>>

\* await new Promise(resolve => setTimeout(resolve, pollInterval))
WaitSleep ==
    /\ waitPc = "sleep"
    /\ \E d \in SleepDurations(waitOptions) : waitElapsed' = waitElapsed + d
    /\ waitPc' = "test"
    /\ UNCHANGED <<waitOptions, waitSeen, waitResult>>
    /\ UNCHANGED <<coreVars, codecVars, replyVars, unitVars, triggerVars, schemaVars>>

WaitNext ==
    \/ WaitTest
    \/ WaitStatus
    \/ WaitRequestFails
    \/ WaitSleep

---------------------------------------------------------------------------
(* messageUtils: computeSchemaDigest *)

\* the keys of an object, in property order
KeysOf(members) == [i \in 1..Len(members) |-> members[i][1]]

HasKey(members, k) == \E i \in 1..Len(members) : members[i][1] = k

ValueAt(members, k) == members[CHOOSE i \in 1..Len(members) : members[i][1] = k][2]

\* JSON.stringify(v, list), list an array of strings: of every object, at any
\* depth, the properties the list names are written, in the order of the list
RECURSIVE JTextListed(_, _)
JTextListed(v, list) ==
    LET RECURSIVE Join(_)
        Join(ts) ==
            IF ts = <<>> THEN ""
            ELSE IF Len(ts) = 1 THEN ts[1]
            ELSE ts[1] \o "," \o Join(Tail(ts))
        Listed(k) == HasKey(v[2], k) /\ ValueAt(v[2], k)[1] # "undef"
        keys == SelectSeq(list, Listed)
    IN  CASE v[1] = "obj" ->
                "{" \o Join([i \in 1..Len(keys) |->
                                JStr(keys[i]) \o ":" \o JTextListed(ValueAt(v[2], keys[i]), list)])
                \o "}"
          [] v[1] = "arr" ->
                "[" \o Join([i \in 1..Len(v[2]) |->
                                IF v[2][i][1] = "undef" THEN "null"
                                ELSE JTextListed(v[2][i], list)])
                \o "]"
          [] OTHER -> JText(v)

\* JSON.stringify(model, Object.keys(model).sort()): the text that is hashed
SchemaSortedJson(model) == JTextListed(model, KeysOf(SortByKey(model[2])))

\* hash.toString('base64').slice(0, 32): the idealised hash stays injective
\* when cut to 32 characters
Slice32(base64) == base64

computeSchemaDigest(model) == "model:" \o Slice32(Sha256Base64(SchemaSortedJson(model)))

---------------------------------------------------------------------------
(* The schema digest: computeSchemaDigest on two models *)

\* what a model holds under a key: a string, a mapping, a sequence of mappings
SchemaFields ==
    {Str("string"), SAB, SBA, SFoo, SBar, Obj(<< <<"type", Str("number")>> >>), Arr(<<SFoo>>),
     Arr(<<SBar>>)}

\* models of two members, in both orders of their keys
SchemaModels ==
    {Obj(<< <<"type", Str("object")>>, <<"items", f>> >>) : f \in SchemaFields}
    \cup {Obj(<< <<"items", f>>, <<"type", Str("object")>> >>) : f \in SchemaFields}

SchemaIdle ==
    /\ schemaModel = << Obj(<< <<"type", Str("object")>> >>), Obj(<< <<"type", Str("object")>> >>) >>
    /\ schemaCalls = <<>>

SchemaInit ==
    /\ schemaModel \in SchemaModels \X SchemaModels
    /\ schemaCalls = <<>>

ComputeSchemaDigest ==
    /\ Len(schemaCalls) < MaxCalls
    /\ \E i \in 1..2 :
          schemaCalls' = Append(schemaCalls,
                                [model |-> i, text |-> SchemaSortedJson(schemaModel[i]),
                                 digest |-> computeSchemaDigest(schemaModel[i])])
    /\ UNCHANGED schemaModel
    /\ UNCHANGED <<coreVars, codecVars, replyVars, unitVars, triggerVars, waitVars>>

SchemaNext == ComputeSchemaDigest

---------------------------------------------------------------------------
(* Specifications *)

\* the state of the parts a specification leaves idle
CoreIdle == EnvInit /\ DlgInit /\ ProtoIdle /\ DigestIdle /\ CheckIdle

ExtIdle == CodecIdle /\ ReplyIdle /\ UnitIdle /\ TriggerIdle /\ WaitIdle /\ SchemaIdle

InitCodec ==
    CoreIdle /\ CodecInit /\ ReplyIdle /\ UnitIdle /\ TriggerIdle /\ WaitIdle /\ SchemaIdle

\* encodePayload on every payload, decodePayload on what it returned
CodecSpec == InitCodec /\ [][CodecNext]_vars

InitReply ==
    CoreIdle /\ CodecIdle /\ ReplyInit /\ UnitIdle /\ TriggerIdle /\ WaitIdle /\ SchemaIdle

\* createResponseEnvelope and createErrorEnvelope on every received envelope
ReplySpec == InitReply /\ [][ReplyNext]_vars

InitUnit ==
    CoreIdle /\ CodecIdle /\ ReplyIdle /\ UnitInit /\ TriggerIdle /\ WaitIdle /\ SchemaIdle

\* fetToAfet, afetToFet and parseAmount on every amount
UnitSpec == InitUnit /\ [][UnitNext]_vars

InitTrigger ==
    CoreIdle /\ CodecIdle /\ ReplyIdle /\ UnitIdle /\ TriggerInit /\ WaitIdle /\ SchemaIdle

\* a trigger node of every event is polled, the endpoint answering or failing
TriggerSpec == InitTrigger /\ [][TriggerNext]_vars

InitWait ==
    CoreIdle /\ CodecIdle /\ ReplyIdle /\ UnitIdle /\ TriggerIdle /\ WaitInit /\ SchemaIdle

\* waitForTask with every choice of options.  Each await of the loop resumes:
\* the status request returns or throws, and the timer fires.
WaitSpec == InitWait /\ [][WaitNext]_vars /\ WF_vars(WaitNext)

InitSchema ==
    CoreIdle /\ CodecIdle /\ ReplyIdle /\ UnitIdle /\ TriggerIdle /\ WaitIdle /\ SchemaInit

\* computeSchemaDigest on every pair of models
SchemaSpec == InitSchema /\ [][SchemaNext]_vars

Init == EnvInit /\ DlgInit /\ ProtoIdle /\ DigestIdle /\ CheckIdle /\ ExtIdle

InitProto == EnvInit /\ DlgInit /\ ProtoInit /\ DigestIdle /\ CheckIdle /\ ExtIdle

InitValidate == EnvInit /\ DlgInit /\ ValidateInit /\ DigestIdle /\ CheckIdle /\ ExtIdle

InitManifest == EnvInit /\ DlgInit /\ ProtoIdle /\ DigestIdle /\ CheckIdle /\ ExtIdle

InitDigest == EnvInit /\ DlgInit /\ ProtoIdle /\ DigestInit /\ CheckIdle /\ ExtIdle

InitCheck == EnvInit /\ DlgInit /\ ProtoIdle /\ DigestIdle /\ CheckInit /\ ExtIdle

InitExpiry == EnvInit /\ DlgInit /\ ProtoIdle /\ DigestIdle /\ CheckIdle /\ ExtIdle

Next == EnvNext

\* the operations of messageUtils, called in any order
Spec == Init /\ [][Next]_vars

\* an envelope is created, signed, sent and verified, with a party on the way
\* that replaces fields of signed envelopes
TamperSpec == Init /\ [][TamperNext]_vars

\* dialogues are started and continued through one AgentClient
DialogueSpec == Init /\ [][DlgNext]_vars

\* areProtocolsCompatible and mergeProtocols on every pair of manifests
ProtoSpec == InitProto /\ [][ProtoNext]_vars

\* validateProtocolManifest on every object
ValidateSpec == InitValidate /\ [][ValidateNext]_vars

\* manifests are made by createProtocolManifest and createSimpleProtocol and
\* merged by mergeProtocols, in any order
ManifestSpec == InitManifest /\ [][ManifestNext]_vars

\* computeModelDigest on every pair of models
DigestSpec == InitDigest /\ [][DigestNext]_vars

\* validateEnvelope on every object, the clock advancing between the calls
CheckSpec == InitCheck /\ [][CheckNext]_vars

\* isExpired on every timestamp, the clock advancing between the calls
ExpirySpec == InitExpiry /\ [][ExpiryNext]_vars

---------------------------------------------------------------------------
(* Properties of the envelope engine *)

EnvelopeFields ==
    {"version", "sender", "target", "session", "schemaDigest", "protocolDigest",
     "payload", "expires", "nonce", "signature"}

\* the fields the specification lists as signed, in its order
SignedFieldOrder ==
    <<"version", "sender", "target", "session", "schemaDigest", "payload", "expires", "nonce">>

SignedFields == {SignedFieldOrder[i] : i \in 1..Len(SignedFieldOrder)}

\* the fields in which two envelopes differ
DiffFields(a, b) == {f \in EnvelopeFields : a[f] # b[f]}

\* the keys of a member list, in order
Keys(ms) == [i \in 1..Len(ms) |-> ms[i][1]]

\* the last operation was verifyEnvelope with the public half of the key pair
\* whose private half signed signedEnv
VerifiedWithSignersKey ==
    /\ lastOp = "verify"
    /\ IsSome(env)
    /\ IsSome(signedEnv)
    /\ \E k \in KeyPairs : signKey = PrivateKey(k) /\ usedKey = PublicKey(k)

\* every envelope value there is: the one in hand, the one on the wire
Envelopes ==
    (IF IsSome(env) THEN {Get(env)} ELSE {})
    \cup (IF IsSome(wire) THEN {deserializeEnvelope(Get(wire))} ELSE {})

\* C1: verifyEnvelope(signEnvelope(e, privateKey), publicKey) is true for every
\* envelope e of createEnvelope and every matching key pair.
C1_SignVerifyRoundTrip ==
    (VerifiedWithSignersKey /\ env = signedEnv) => outcome = "true"

C1_Witness ==
    VerifiedWithSignersKey /\ env = signedEnv /\ outcome = "true"

\* C2: a signed envelope in which one signed field was replaced by a different
\* value, the signature kept, does not verify under the signer's public key.
C2_TamperDetected ==
    (/\ VerifiedWithSignersKey
     /\ \E f \in SignedFields : DiffFields(Get(env), Get(signedEnv)) = {f})
    => outcome = "false"

C2_Witness ==
    /\ VerifiedWithSignersKey
    /\ DiffFields(Get(env), Get(signedEnv)) = {"nonce"}
    /\ outcome = "false"

\* the text of all fields of e except signature, in property order
AllButSignatureText(e) ==
    JObject(Req("version", "number", e.version) \o Req("sender", "string", e.sender)
            \o Req("target", "string", e.target) \o Req("session", "string", e.session)
            \o Req("schemaDigest", "string", e.schemaDigest)
            \o Opt("protocolDigest", "string", e.protocolDigest)
            \o Req("payload", "string", e.payload)
            \o Opt("expires", "number", e.expires) \o Opt("nonce", "string", e.nonce))

\* the text of the fields of SignedFieldOrder, in that order
SignedFieldsText(e) ==
    JObject(Req("version", "number", e.version) \o Req("sender", "string", e.sender)
            \o Req("target", "string", e.target) \o Req("session", "string", e.session)
            \o Req("schemaDigest", "string", e.schemaDigest)
            \o Req("payload", "string", e.payload)
            \o Opt("expires", "number", e.expires) \o Opt("nonce", "string", e.nonce))

\* signature is some key pair's signature over text
ValidSignatureOver(signature, text) ==
    \E k \in KeyPairs : CryptoVerify(text, PublicKey(k), signature) = "true"

\* C3 as stated: after any sequence of createEnvelope, signEnvelope,
\* createResponseEnvelope, createErrorEnvelope, serializeEnvelope and
\* deserializeEnvelope calls, every envelope has no signature or a valid
\* signature over the encoding of all of its fields except signature.
C3_SignatureCoversAllFields ==
    \A e \in Envelopes :
        ~IsSome(e.signature) \/ ValidSignatureOver(Get(e.signature), AllButSignatureText(e))

\* C3 as amended: ... has no signature or a valid signature over the encoding
\* of version, sender, target, session, schemaDigest, payload, expires and
\* nonce, that is of all fields except signature and protocolDigest.
C3_SignatureCoversSignedFields ==
    \A e \in Envelopes :
        ~IsSome(e.signature) \/ ValidSignatureOver(Get(e.signature), SignedFieldsText(e))

C3_Witness ==
    /\ lastOp = "deserialize"
    /\ IsSome(env)
    /\ IsSome(Get(env).signature)
    /\ IsSome(Get(env).protocolDigest)
    /\ ValidSignatureOver(Get(Get(env).signature), SignedFieldsText(Get(env)))

\* C4: the signing payload is version, sender, target, session, schemaDigest,
\* payload, expires, nonce in that order, without protocolDigest: a signed
\* envelope whose protocolDigest was changed or removed still verifies under
\* the signer's public key.
C4_ProtocolDigestNotSigned ==
    /\ \A e \in Envelopes :
          (IsSome(e.expires) /\ IsSome(e.nonce)) =>
              /\ Keys(SignMembers(e)) = SignedFieldOrder
              /\ Keys(VerifyMembers(e)) = SignedFieldOrder
    /\ (VerifiedWithSignersKey /\ DiffFields(Get(env), Get(signedEnv)) = {"protocolDigest"})
       => outcome = "true"

C4_Witness ==
    /\ VerifiedWithSignersKey
    /\ DiffFields(Get(env), Get(signedEnv)) = {"protocolDigest"}
    /\ ~IsSome(Get(env).protocolDigest)
    /\ outcome = "true"

ValidPublicKeys == {PublicKey(k) : k \in KeyPairs}

MalformedSignatures == {"", "!!not-base64!!"}

\* C5: verifyEnvelope returns a boolean and never throws; it returns false
\* when signature is absent and when the key or the signature is malformed.
C5_VerifyIsTotal ==
    lastOp = "verify" =>
        /\ outcome \in {"true", "false"}
        /\ ~IsSome(Get(env).signature) => outcome = "false"
        /\ usedKey \notin ValidPublicKeys => outcome = "false"
        /\ (IsSome(Get(env).signature) /\ Get(Get(env).signature) \in MalformedSignatures)
           => outcome = "false"

C5_Witness ==
    /\ lastOp = "verify"
    /\ IsSome(Get(env).signature)
    /\ Get(Get(env).signature) \notin MalformedSignatures
    /\ usedKey = MalformedKey
    /\ outcome = "false"

---------------------------------------------------------------------------
(* Properties of the dialogue methods *)

\* C6: all messages of one dialogue carry the same session: every envelope
\* sent by startDialogue or by continueDialogue(sessionId, ...) has session
\* equal to the sessionId that startDialogue returned for the dialogue.
C6_DialogueKeepsSession ==
    \A i \in 1..Len(posted) : posted[i].envelope.session = posted[i].dialogue

---------------------------------------------------------------------------
(* Properties of the manifest manager *)

\* two JavaScript values are equal up to the order of the keys of their objects
RECURSIVE SameValue(_, _)
SameValue(a, b) ==
    IF a[1] # b[1] THEN FALSE
    ELSE IF a[1] = "obj"
    THEN /\ Len(a[2]) = Len(b[2])
         /\ \A i \in 1..Len(a[2]) : \E j \in 1..Len(b[2]) :
               a[2][i][1] = b[2][j][1] /\ SameValue(a[2][i][2], b[2][j][2])
    ELSE IF a[1] = "arr"
    THEN /\ Len(a[2]) = Len(b[2])
         /\ \A i \in 1..Len(a[2]) : SameValue(a[2][i], b[2][i])
    ELSE a = b

\* two models have identical schemas and, when withName, the same name
SameModel(m1, m2, withName) ==
    /\ withName => m1.name = m2.name
    /\ SameValue(m1.schema, m2.schema)

\* the first occurrences among all[1..n]: the models with no SameModel before them
RECURSIVE FirstOccurrences(_, _, _)
FirstOccurrences(all, n, withName) ==
    IF n = 0 THEN <<>>
    ELSE IF \E j \in 1..(n - 1) : SameModel(all[j], all[n], withName)
    THEN FirstOccurrences(all, n - 1, withName)
    ELSE Append(FirstOccurrences(all, n - 1, withName), all[n])

\* some model of a and some model of b are SameModel
ShareModel(a, b, withName) ==
    \E i \in 1..Len(a.models), j \in 1..Len(b.models) :
        SameModel(a.models[i], b.models[j], withName)

\* C7 as stated: areProtocolsCompatible(a, b) is true exactly when some model
\* of a and some model of b have identical schemas, whatever their names.
C7_CompatibleBySchema ==
    compat # "none" => (compat = "true" <=> ShareModel(pa, pb, FALSE))

\* C7 as amended: areProtocolsCompatible(a, b) is true exactly when some model
\* of a and some model of b have the same name and identical schemas (equal up
\* to the order of mapping keys).
C7_CompatibleByNameAndSchema ==
    compat # "none" => (compat = "true" <=> ShareModel(pa, pb, TRUE))

C7_Witness ==
    /\ compat = "true"
    /\ \A i \in 1..Len(pa.models), j \in 1..Len(pb.models) : pa.models[i] # pb.models[j]

\* C8 as stated: mergeProtocols keeps, of the models of a followed by those
\* of b, the first occurrence of each schema, so that two distinctly named
\* models with identical schemas collapse to a single entry.
C8_MergeCollapsesBySchema ==
    IsSome(merged) =>
        Get(merged).models
            = FirstOccurrences(pa.models \o pb.models, Len(pa.models) + Len(pb.models), FALSE)

\* C8 as amended: mergeProtocols keeps, of the models of a followed by those
\* of b, the first occurrence of each model digest, that is of each pair of
\* name and schema (up to the order of mapping keys): two models with the
\* same name and identical schemas collapse to a single entry, two distinctly
\* named models with identical schemas are both kept.
C8_MergeCollapsesByNameAndSchema ==
    IsSome(merged) =>
        Get(merged).models
            = FirstOccurrences(pa.models \o pb.models, Len(pa.models) + Len(pb.models), TRUE)

C8_Witness ==
    /\ IsSome(merged)
    /\ pa.models = << [name |-> Str("Request"), schema |-> SBA] >>
    /\ pb.models = << [name |-> Str("Request"), schema |-> SAB],
                      [name |-> Str("Response"), schema |-> SAB] >>
    /\ Get(merged).models = << [name |-> Str("Request"), schema |-> SBA],
                               [name |-> Str("Response"), schema |-> SAB] >>

NonEmptyString(v) == v[1] = "str" /\ v[2] # ""

\* typeof v === 'object' and v is not null: an object or an array
ObjectTyped(v) == v[1] \in {"obj", "arr"}

\* name and version are non-empty strings, models is a sequence whose
\* elements have a non-empty name and an object-typed schema
WellFormedManifest(m) ==
    /\ NonEmptyString(m.name)
    /\ NonEmptyString(m.version)
    /\ IsArray(m.models)
    /\ \A i \in 1..Len(m.models[2]) :
          /\ Truthy(m.models[2][i].name)
          /\ ObjectTyped(m.models[2][i].schema)

\* C9 as stated: valid = true only if name and version are non-empty strings
\* and models is a non-empty sequence whose elements have a non-empty name
\* and an object-typed schema; a manifest with no models is invalid.
C9_ValidOnlyIfNonEmptyModels ==
    (IsSome(validation) /\ Get(validation).valid) =>
        (WellFormedManifest(raw) /\ Len(raw.models[2]) > 0)

\* C9 as amended: valid = true only if name and version are non-empty strings
\* and models is a sequence, which may be empty, whose elements have a
\* non-empty name and an object-typed schema.
C9_ValidOnlyIfWellFormed ==
    (IsSome(validation) /\ Get(validation).valid) => WellFormedManifest(raw)

C9_Witness ==
    /\ IsSome(validation)
    /\ Get(validation).valid
    /\ IsArray(raw.models)
    /\ Len(raw.models[2]) > 0

B2N(b) == IF b THEN 1 ELSE 0

\* the rules the models all[1..n] break
RECURSIVE ModelViolations(_, _)
ModelViolations(all, n) ==
    IF n = 0 THEN 0
    ELSE ModelViolations(all, n - 1)
         + B2N(~Truthy(all[n].name)) + B2N(~ObjectTyped(all[n].schema))

\* the rules the object m breaks
Violations(m) ==
    B2N(~NonEmptyString(m.name)) + B2N(~NonEmptyString(m.version))
    + (IF IsArray(m.models) THEN ModelViolations(m.models[2], Len(m.models[2])) ELSE 1)

\* C10: validateProtocolManifest reports every violation in one pass: valid
\* is true iff errors is empty, there is one error for each broken rule, and
\* an object without name and without a models array, its version valid,
\* yields exactly two errors.
C10_AllViolationsReported ==
    IsSome(validation) =>
        LET r == Get(validation)
        IN  /\ r.valid <=> (r.errors = <<>>)
            /\ Len(r.errors) = Violations(raw)
            /\ (raw.name = Undef /\ ~IsArray(raw.models) /\ NonEmptyString(raw.version))
               => Len(r.errors) = 2

C10_Witness ==
    /\ IsSome(validation)
    /\ raw.name = Undef
    /\ raw.models = Undef
    /\ raw.version = Str("1.0")
    /\ Len(Get(validation).errors) = 2
    /\ ~Get(validation).valid

---------------------------------------------------------------------------
(* Properties of the manifest digest *)

Range(seq) == {seq[i] : i \in 1..Len(seq)}

\* the sequences that hold the elements of seq in another order
Perms(seq) ==
    { [i \in 1..Len(seq) |-> seq[f[i]]] :
          f \in {g \in [1..Len(seq) -> 1..Len(seq)] : \A i \in 1..Len(seq) : \E j \in 1..Len(seq) : g[j] = i} }

\* no two models of the sequence have the same name
DistinctNames(models) ==
    \A i \in 1..Len(models), j \in 1..Len(models) : i # j => models[i].name # models[j].name

\* the manifests a caller holds
ManifestsInHand == {pa, pb} \cup (IF IsSome(merged) THEN {Get(merged)} ELSE {})

\* C11: every manifest returned by createProtocolManifest, createSimpleProtocol
\* or mergeProtocols, after any sequence of such calls, has a non-empty digest
\* that is computeProtocolDigest of its own name, version and models.
C11_DigestNeverStale ==
    \A m \in ManifestsInHand : m.digest # "" /\ m.digest = computeProtocolDigest(m)

C11_Witness ==
    /\ IsSome(merged)
    /\ Len(Get(merged).handlers) = 2
    /\ Len(Get(merged).models) >= 3
    /\ Len(pa.models) = 2
    /\ Get(merged).digest = computeProtocolDigest(Get(merged))
    /\ Get(merged).digest # pa.digest

\* C12: createProtocolManifest(name, version, models) yields the same digest
\* for every permutation of the models sequence; checked on the sequences the
\* data model allows, those whose models have pairwise distinct names.
C12_DigestSameForPermutations ==
    DistinctNames(pa.models) =>
        \A p \in Perms(pa.models) :
            createProtocolManifest(pa.name, pa.version, p, pa.handlers, pa.description).digest
                = pa.digest

\* the names of LocaleSortedNames in the order of their UTF-8 byte sequences:
\* upper case before lower case, U+0065 U+0301 (65 cc 81) before U+00E9 (c3 a9)
Utf8SortedNames == <<"Request", "Response", "cafe\\u0301", "caf\\u00e9", "request">>

Utf8Rank(name) == CHOOSE i \in 1..Len(Utf8SortedNames) : Utf8SortedNames[i] = name

RECURSIVE InsertByUtf8Name(_, _)
InsertByUtf8Name(m, models) ==
    IF models = <<>> THEN <<m>>
    ELSE IF Utf8Rank(m.name[2]) <= Utf8Rank(models[1].name[2]) THEN <<m>> \o models
    ELSE <<models[1]>> \o InsertByUtf8Name(m, Tail(models))

RECURSIVE SortByUtf8Name(_)
SortByUtf8Name(models) ==
    IF models = <<>> THEN <<>>
    ELSE InsertByUtf8Name(models[1], SortByUtf8Name(Tail(models)))

\* the digest of the manifest with its models in the order of the UTF-8 bytes
\* of their names
Utf8OrderDigest(manifest) ==
    LET sortedModels == SortByUtf8Name(manifest.models)
        canonical ==
            Obj(<< <<"name", manifest.name>>,
                   <<"version", manifest.version>>,
                   <<"models", Arr([i \in 1..Len(sortedModels) |->
                                       ModelCanonical(sortedModels[i])])>> >>)
    IN  "proto:" \o Digest32(Sha256Base64(JText(canonical)))

\* C13: computeProtocolDigest orders the models by strict lexicographic
\* comparison of the UTF-8 byte sequences of their names before serializing and
\* hashing them: the digest of a manifest is the digest of its models in that
\* order.
C13_SortsByUtf8Bytes ==
    DistinctNames(pa.models) => pa.digest = Utf8OrderDigest(pa)

---------------------------------------------------------------------------
(* Properties of the schema digest engine *)

\* C14: computeModelDigest returns the same digest for two models with the same
\* name whose schemas differ only in the order of mapping keys, at every
\* nesting depth, mappings that are elements of sequences included, and the
\* same digest on repeated calls with an unchanged model.
C14_DigestIgnoresKeyOrder ==
    \A i \in 1..Len(digestCalls), j \in 1..Len(digestCalls) :
        SameModel(digestModels[digestCalls[i].model], digestModels[digestCalls[j].model], TRUE)
        => digestCalls[i].digest = digestCalls[j].digest

C14_Witness ==
    /\ Len(digestCalls) = 3
    /\ digestModels[1] = [name |-> Str("Request"), schema |-> Nested(SAB, SBA)]
    /\ digestModels[2] = [name |-> Str("Request"), schema |-> NestedSwapped(SBA, SAB)]
    /\ digestCalls[1].model = 1
    /\ digestCalls[2].model = 2
    /\ digestCalls[3].model = 1
    /\ digestCalls[1].digest = digestCalls[2].digest
    /\ digestCalls[1].digest = digestCalls[3].digest

---------------------------------------------------------------------------
(* Properties of the receiver's checks *)

StringFields == {"sender", "target", "session", "schemaDigest", "payload"}

\* the error validateEnvelope has for the version of the object e
VersionError(e) ==
    "Invalid version: expected " \o ToString(ENVELOPE_VERSION) \o ", got " \o VersionText(e.version)

ExpiredError == "Message has expired"

\* how many of the rules on version and on the five string fields e breaks
StructuralViolations(e) ==
    B2N(e.version # Num(ENVELOPE_VERSION))
    + B2N(~NonEmptyString(e.sender)) + B2N(~NonEmptyString(e.target))
    + B2N(~NonEmptyString(e.session)) + B2N(~NonEmptyString(e.schemaDigest))
    + B2N(~NonEmptyString(e.payload))

C16_ExpiredIffPast ==
    IsSome(envValidation) =>
        ((ExpiredError \in Range(Get(envValidation).result.errors))
         <=> (candidate.expires[1] = "num"
              /\ candidate.expires[2] < Get(envValidation).clock))

\* C17: isExpired(t) returns true exactly when the clock, read at the call, is
\* strictly greater than t: at clock = t it returns false, a timestamp
\* reported not expired is reported expired by a later call once the clock
\* has passed it, and is reported expired by every call after that one.
C17_ExpiredStrictlyAfter ==
    /\ \A i \in 1..Len(expiryCalls) :
          /\ expiryCalls[i].expired <=> (expiryCalls[i].clock > expiryCalls[i].timestamp)
          /\ expiryCalls[i].clock = expiryCalls[i].timestamp => ~expiryCalls[i].expired
    /\ \A i \in 1..Len(expiryCalls), j \in 1..Len(expiryCalls) :
          (i < j /\ expiryCalls[i].timestamp = expiryCalls[j].timestamp) =>
              /\ expiryCalls[i].expired => expiryCalls[j].expired
              /\ expiryCalls[j].clock > expiryCalls[j].timestamp => expiryCalls[j].expired

C17_Witness ==
    /\ Len(expiryCalls) = 3
    /\ \A i \in 1..3 : expiryCalls[i].timestamp = 0
    /\ expiryCalls[1].clock = 0
    /\ ~expiryCalls[1].expired
    /\ expiryCalls[2].clock = 1
    /\ expiryCalls[2].expired
    /\ expiryCalls[3].expired

---------------------------------------------------------------------------
(* Properties of createEnvelope *)

\* the envelope in hand is the one the last createEnvelope call returned
FreshEnvelope == lastOp \in {"create", "response", "error"} /\ IsSome(env) /\ IsSome(lastCreate)

\* C18: createEnvelope sets expires to the current time in seconds plus
\* options.expirySeconds for every supplied expirySeconds value, and to the
\* current time plus DEFAULT_MESSAGE_EXPIRY (300) when expirySeconds is not
\* supplied.
C18_ExpiresFromOption ==
    FreshEnvelope =>
        LET c == Get(lastCreate)
            x == c.args.options.expirySeconds
        IN  Get(env).expires
                = Some(c.clock + (IF IsSome(x) THEN Get(x) ELSE DEFAULT_MESSAGE_EXPIRY))

\* C19: createEnvelope(sender, target, payload, schemaDigest, options) returns
\* an envelope with signature absent, version equal to the fixed protocol
\* version, sender, target and schemaDigest equal to the arguments, and a
\* non-empty session.
C19_CreatedEnvelopeShape ==
    FreshEnvelope =>
        LET e == Get(env)
            a == Get(lastCreate).args
        IN  /\ ~IsSome(e.signature)
            /\ e.version = ENVELOPE_VERSION
            /\ e.sender = a.sender
            /\ e.target = a.target
            /\ e.schemaDigest = a.schemaDigest
            /\ e.session # ""

C19_Witness ==
    /\ FreshEnvelope
    /\ lastOp = "create"
    /\ Get(lastCreate).args.options.session = Some("")
    /\ Get(lastCreate).args.sender = "agent1qsender"
    /\ Get(env).sender = "agent1qsender"
    /\ Get(env).schemaDigest = "model:test123"
    /\ Get(env).session # ""
    /\ ~IsSome(Get(env).signature)

---------------------------------------------------------------------------
(* Properties of the payload codec *)

\* C21: decodePayload applied to the text encodePayload returned for a payload
\* gives a value structurally equal to the payload: the same members under the
\* same keys, the same items, the same scalars.
C21_DecodeInvertsEncode ==
    IsSome(codecOut) => Get(codecOut) = codecIn

\* a payload with an escaped character, a two-byte character and a nested array
\* went through both functions
C21_Witness ==
    /\ IsSome(codecOut)
    /\ codecIn = Obj(<< <<CodecKeys[2],
                          Obj(<< <<CodecKeys[3], Arr(<<Str(<<10, 123, 58, 44>>), Num(-12)>>)>> >>)>> >>)
    /\ Get(codecText) = encodePayloadChars(codecIn)

---------------------------------------------------------------------------
(* Properties of response and error envelopes *)

\* C22: the envelope createResponseEnvelope returns for an original envelope is
\* unsigned, its sender is the sender given, its target the original's sender,
\* its session the original's session and its protocolDigest the original's.
C22_ResponseMirrorsOriginal ==
    (IsSome(reply) /\ Get(reply).op = "response") =>
        LET e == Get(reply).envelope
        IN  /\ e.signature = None
            /\ e.sender = Get(reply).sender
            /\ e.target = received.sender
            /\ e.session = received.session
            /\ e.protocolDigest = received.protocolDigest

\* C23: the envelope createErrorEnvelope returns for an original envelope is
\* unsigned, its target is the original's sender, its session the original's
\* session, its schemaDigest 'model:error-v1', and its payload decodes to
\* {type: 'error', code, message}.
C23_ErrorMirrorsOriginal ==
    (IsSome(reply) /\ Get(reply).op = "error") =>
        LET e == Get(reply).envelope
        IN  /\ e.signature = None
            /\ e.target = received.sender
            /\ e.session = received.session
            /\ e.schemaDigest = "model:error-v1"
            /\ decodePayload(e) = Obj(<< <<"type", Str("error")>>, <<"code", Str("E1")>>,
                                         <<"message", Str("failed")>> >>)

---------------------------------------------------------------------------
(* Properties of the unit converter *)

\* the inputs of parseAmount that are an amount alone or an amount followed by FET
FetDenominations == {<<>>, <<" ", "F", "E", "T">>, <<"F", "E", "T">>}

\* C24: parseAmount returns the amount string of its input unchanged, the input
\* being the amount alone or the amount followed by FET, with or without a
\* space ('100 FET' gives '100', '0.001' gives '0.001').
C24_ParseAmountKeepsAmount ==
    (/\ IsSome(unitOut)
     /\ Get(unitOut).fn = "parseAmount"
     /\ \E d \in FetDenominations : Get(unitOut).input = unitIn \o d)
    => Get(unitOut).output = unitIn

\* the digits of an amount before and after its point
DigitsBefore(x) == IF PointAt(x) = 0 THEN x ELSE SubSeq(x, 1, PointAt(x) - 1)
DigitsAfter(x) == IF PointAt(x) = 0 THEN <<>> ELSE SubSeq(x, PointAt(x) + 1, Len(x))

\* ten times a non-negative integer written without leading zeros, n times over
RECURSIVE TimesTenTo(_, _)
TimesTenTo(d, n) ==
    IF n = 0 THEN d
    ELSE TimesTenTo(IF d = <<"0">> THEN d ELSE Append(d, "0"), n - 1)

\* the amount x is N / 10^k, N the integer its digits write and k the number of
\* its fractional digits; x times 10^18 is N times 10^(18 - k)
TimesTenTo18(x) ==
    LET N == StripLeadingZeros(DigitsBefore(x) \o DigitsAfter(x))
    IN  TimesTenTo(IF N = <<>> THEN <<"0">> ELSE N, FET_DECIMALS - Len(DigitsAfter(x)))

\* x without leading zeros and without trailing fractional zeros
CanonicalAmount(x) ==
    LET w == StripLeadingZeros(DigitsBefore(x))
        f == StripTrailingZeros(DigitsAfter(x))
    IN  (IF w = <<>> THEN <<"0">> ELSE w) \o (IF f = <<>> THEN <<>> ELSE <<".">> \o f)

\* C25: for an amount x in plain decimal notation with at most 18 fractional
\* digits, fetToAfet(x) is the integer x times 10^18 written without leading
\* zeros, and afetToFet of it is x in canonical form.
C25_FetAfetRoundTrip ==
    IsSome(unitOut) =>
        /\ Get(unitOut).fn = "fetToAfet" => Get(unitOut).output = TimesTenTo18(unitIn)
        /\ Get(unitOut).fn = "afetToFet" =>
              /\ Get(unitOut).input = TimesTenTo18(unitIn)
              /\ Get(unitOut).output = CanonicalAmount(unitIn)

\* an amount with leading zeros and 18 fractional digits came back in canonical form
C25_Witness ==
    /\ IsSome(unitOut)
    /\ Get(unitOut).fn = "afetToFet"
    /\ unitIn = <<"0", "1", ".">> \o Zeros(FET_DECIMALS - 1) \o <<"5">>
    /\ Get(unitOut).input = <<"1">> \o Zeros(FET_DECIMALS - 1) \o <<"5">>
    /\ Get(unitOut).output = <<"1", ".">> \o Zeros(FET_DECIMALS - 1) \o <<"5">>

---------------------------------------------------------------------------
(* Properties of the trigger node *)

\* the items the polls so far returned, poll by poll
Emitted(i) == IF IsSome(polls[i].returned) THEN Get(polls[i].returned) ELSE <<>>

\* C26: the heights of the newBlock events emitted poll after poll strictly
\* increase, whatever heights the node returns: no height is emitted twice.
C26_BlockHeightsIncrease ==
    triggerEvent = "newBlock" =>
        \A i \in 1..Len(polls), j \in 1..Len(polls) :
            i < j =>
                \A a \in 1..Len(Emitted(i)), b \in 1..Len(Emitted(j)) :
                    Emitted(i)[a].height < Emitted(j)[b].height

\* C27: a contract-execution transaction hash is emitted by at most one poll.
C27_TxHashEmittedOnce ==
    triggerEvent = "contractExecuted" =>
        \A i \in 1..Len(polls), j \in 1..Len(polls) :
            i # j =>
                \A a \in 1..Len(Emitted(i)), b \in 1..Len(Emitted(j)) :
                    Emitted(i)[a].txHash # Emitted(j)[b].txHash

\* C28: a poll whose HTTP request failed did not throw, returned null and left
\* every cursor of the static data as it was.
C28_FailedPollKeepsCursors ==
    \A i \in 1..Len(polls) :
        polls[i].response.failed =>
            /\ ~polls[i].threw
            /\ polls[i].returned = None
            /\ polls[i].after = polls[i].before

\* a request failed after an earlier poll had stored a cursor, and the poll after
\* it went on from that cursor
C28_Witness ==
    /\ Len(polls) = 3
    /\ ~polls[1].response.failed
    /\ polls[1].after # NoData
    /\ polls[2].response.failed
    /\ polls[2].before = polls[1].after
    /\ polls[3].before = polls[1].after
    /\ IsSome(polls[3].returned)

---------------------------------------------------------------------------
(* Properties of waitForTask *)

WaitDone == waitPc \in {"returned", "thrown"}

\* what waitForTask has done when it is over
WaitOutcome ==
    /\ waitPc = "returned" =>
          /\ Get(waitResult) \in {"completed", "failed", "cancelled"}
          /\ waitSeen \cap {"completed", "failed", "cancelled"} = {}
    /\ (waitPc = "thrown" /\ waitResult = Some("Task timeout")) =>
          /\ waitElapsed >= TimeoutOf(waitOptions)
          /\ waitSeen \cap {"completed", "failed", "cancelled"} = {}
    /\ waitPc = "thrown" => waitResult \in {Some("Task timeout"), Some("DeltaV API error")}
    /\ ~WaitDone => waitResult = None

\* the loop is not entered again once the elapsed time has reached the timeout
WaitGivesUp ==
    (waitPc = "test" /\ waitElapsed >= TimeoutOf(waitOptions)) =>
        (waitPc' = "thrown" /\ waitResult' = Some("Task timeout"))

\* C29: waitForTask terminates; it returns only a status that is COMPLETED,
\* FAILED or CANCELLED, the first such status it observed; it throws 'Task
\* timeout' when the elapsed time has reached the timeout and not before.
C29_WaitForTaskTerminates ==
    /\ []WaitOutcome
    /\ [][WaitGivesUp]_vars
    /\ <>WaitDone

\* the task was pending, then processing, then completed, and waitForTask
\* returned that status before the timeout
C29_Witness ==
    /\ waitPc = "returned"
    /\ waitResult = Some("completed")
    /\ waitSeen = {"pending", "processing"}
    /\ waitElapsed < TimeoutOf(waitOptions)
    /\ waitOptions.timeout = Some(0)

---------------------------------------------------------------------------
(* Properties of the schema digest *)

\* two models have the same keys and differ, and differ only inside members
\* that are mappings or sequences on both sides
DifferInNestedOnly(a, b) ==
    /\ Len(a[2]) = Len(b[2])
    /\ \A i \in 1..Len(a[2]) : HasKey(b[2], a[2][i][1])
    /\ ~SameValue(a, b)
    /\ \A i \in 1..Len(a[2]) :
          LET x == a[2][i][2]
              y == ValueAt(b[2], a[2][i][1])
          IN  SameValue(x, y) \/ (x[1] \in {"obj", "arr"} /\ y[1] \in {"obj", "arr"})

\* C30: the text computeSchemaDigest hashes is the same for two models that are
\* equal up to the order of their keys, and different for two models that
\* differ only in the keys or values of a nested mapping.
C30_SchemaTextCoversNestedFields ==
    \A i \in 1..Len(schemaCalls), j \in 1..Len(schemaCalls) :
        LET a == schemaModel[schemaCalls[i].model]
            b == schemaModel[schemaCalls[j].model]
        IN  /\ SameValue(a, b) => schemaCalls[i].text = schemaCalls[j].text
            /\ DifferInNestedOnly(a, b) => schemaCalls[i].text # schemaCalls[j].text

=============================================================================
